---- MODULE Spec2Model ----
(***************************************************************************)
(* A model of StarCitizenWingman (src/wingmen/star_citizen_wingman.py):    *)
(* the per-persona conversation contexts, the instant-command path, the    *)
(* LLM turn, the tool-call dispatcher and the mid-turn context switch.     *)
(*                                                                         *)
(* A message is a record.  Its identity is (role, turn, idx): the user     *)
(* message of turn t, the completion of turn t, the idx-th tool result of  *)
(* turn t, the summary of turn t.  "calls" is the number of tool calls an  *)
(* assistant message carries.                                              *)
(***************************************************************************)
EXTENDS Integers, Sequences, FiniteSets, TLC

\* ------------------------------------------------------------------ bounds
\* Turns (transcripts) processed in one behaviour.
MaxTurns == 2
\* Tool calls dispatched in one behaviour, over all turns (and so the most
\* tool calls one assistant message carries).
MaxDispatched == 3
\* Commands in a configuration the matcher is tried on by itself.
MaxCommands == 3
\* Length of a message sequence, and retention size, the history cleanup is
\* tried on by itself.
MaxLen == 9
MaxRetention == 3

\* --------------------------------------------------------------- personas
\* class AIContext(Enum): member names.
AIContext == {"CORA", "TDD"}

\* AIContext.<name>.value
AIContextValue(c) ==
    IF c = "CORA" THEN "CoraInteractionRequests"
    ELSE "TradeAndDevelopmentDivisionRequests"

\* AIContext(value): the member with that value; a value that belongs to no
\* member raises ValueError (the enum's lookup by value).
AIContextLookup(v) ==
    IF \E c \in AIContext : AIContextValue(c) = v
    THEN CHOOSE c \in AIContext : AIContextValue(c) = v
    ELSE "ValueError"

\* The context_name arguments the model may send with switch_context: the two
\* values, and a member name, which is not a value.
ContextNameArgs ==
    {"CoraInteractionRequests", "TradeAndDevelopmentDivisionRequests", "CORA"}

\* The static retention sizes of _set_current_context.
CoraBuffer == 10
TddBuffer == 20

\* --------------------------------------------------------------- messages
Msg(role, turn, idx, calls, name, content) ==
    [role |-> role, turn |-> turn, idx |-> idx, calls |-> calls,
     name |-> name, content |-> content]

\* The system message _set_current_context builds for a new context.
SystemMsg(c) == Msg("system", 0, 0, 0, c, AIContextValue(c))

\* msg = {"role": "user", "content": content}: the user message of turn t.
\* The transcript is kept in current_user_request; the message is told from
\* the others by its turn.
UserMsg(t) == Msg("user", t, 0, 0, "", "")

\* The completion's message; n is the number of tool calls it carries.
AssistantMsg(t, n) == Msg("assistant", t, 0, n, "completion", "")

\* The message of the summarising call after the tool calls.
SummaryMsg(t) == Msg("assistant", t, 0, 0, "summary", "")

\* msg = {"role": "tool", "content": function_response, "name": function_name}
ToolMsg(t, i, fname, response) == Msg("tool", t, i, 0, fname, response)

\* ------------------------------------------------------------------ tools
TradeFunctions ==
    {"find_best_trade_route_from_location",
     "find_best_trade_route_between_locations",
     "find_best_sell_price_for_commodity_at_location",
     "find_best_trade_route_for_commodity",
     "find_best_selling_location_for_commodity"}

\* _context_switch_tool: the targets are the values of the other contexts.
ContextSwitchTool(current) ==
    {AIContextValue(c) : c \in AIContext \ {current}}

GetCoraTools ==
    [functions |-> {"execute_command", "switch_context"},
     targets |-> ContextSwitchTool("CORA")]

GetTddTools ==
    [functions |-> TradeFunctions \cup {"switch_tdd_employee", "switch_context"},
     targets |-> ContextSwitchTool("TDD")]

GetContextTools(c) == IF c = "CORA" THEN GetCoraTools ELSE GetTddTools

\* ---------------------------------------------------------- configuration
\* config["commands"]: the configured commands, in configuration order.
\* responses.kind is "list" (a list, possibly empty), "false" (the value
\* False) or "missing" (no responses key).
Commands ==
    << [name |-> "ResetConversationHistory",
        instant_activation |-> <<"forget everything">>,
        responses |-> [kind |-> "list", list |-> <<"history cleared">>],
        sc_commands |-> <<>>, keys |-> <<>>],
       [name |-> "ToggleLandingGear",
        instant_activation |-> <<"landing gear", "gear down">>,
        responses |-> [kind |-> "list", list |-> <<"gear moving", "aye">>],
        sc_commands |-> <<>>, keys |-> <<"n">>],
       [name |-> "Afterburner",
        instant_activation |-> <<"afterburner on">>,
        responses |-> [kind |-> "false", list |-> <<>>],
        sc_commands |-> <<"v_afterburner">>, keys |-> <<>>],
       [name |-> "ScanArea",
        instant_activation |-> <<"scan the area">>,
        responses |-> [kind |-> "list", list |-> <<>>],
        sc_commands |-> <<"v_scan">>, keys |-> <<>>],
       [name |-> "OpenDoors",
        instant_activation |-> <<>>,
        responses |-> [kind |-> "list", list |-> <<"doors open">>],
        sc_commands |-> <<>>, keys |-> <<"k">>],
       [name |-> "SilentRunning",
        instant_activation |-> <<"silent running">>,
        responses |-> [kind |-> "false", list |-> <<>>],
        sc_commands |-> <<>>, keys |-> <<"b">>],
       [name |-> "v_eject",
        instant_activation |-> <<>>,
        responses |-> [kind |-> "list", list |-> <<>>],
        sc_commands |-> <<>>, keys |-> <<"y">>] >>

NoCommand == [name |-> "", instant_activation |-> <<>>,
              responses |-> [kind |-> "missing", list |-> <<>>],
              sc_commands |-> <<>>, keys |-> <<>>]

\* The transcripts a turn may start with.
Transcripts ==
    {"forget everything", "landing gear", "afterburner on", "scan the area",
     "best trade from lorville"}

\* The transcripts of the turns in which the collaborators are watched.
DispatchTranscripts ==
    {"afterburner on", "silent running", "best trade from lorville"}

\* The transcripts the matcher is tried on by itself: a full match in another
\* case, and a shortened utterance.
MatcherTranscripts == {"Gear Down", "gear do"}

\* The phrases of the instant-activation commands above, then the phrases of
\* the commands the matcher is tried on by itself.
Phrases ==
    <<"forget everything", "landing gear", "gear down", "afterburner on",
      "scan the area", "gear dow", "gear dwn", "gear d", "GEAR DOWN",
      "silent running">>

\* SequenceMatcher(None, transcript.lower(), phrase.lower()).ratio(), in
\* thousandths, for each transcript against each phrase (in Phrases order).
\* 800 and 1000 are exact (12/15, 16/20 and equal strings); no other entry
\* is within a thousandth of 800, and equal entries are equal ratios.
RatioTable ==
    [t \in Transcripts \cup MatcherTranscripts \cup DispatchTranscripts |->
        CASE t = "forget everything" ->
                <<1000, 207, 308, 323, 200, 240, 320, 261, 308, 452>>
          [] t = "landing gear" ->
                <<207, 1000, 381, 231, 400, 400, 400, 444, 381, 385>>
          [] t = "afterburner on" ->
                <<323, 231, 435, 1000, 370, 364, 364, 300, 435, 357>>
          [] t = "scan the area" ->
                <<200, 480, 273, 222, 1000, 286, 286, 316, 273, 296>>
          [] t = "Gear Down" ->
                <<308, 381, 1000, 435, 182, 941, 941, 800, 1000, 87>>
          [] t = "gear do" ->
                <<250, 421, 875, 381, 200, 933, 800, 923, 875, 95>>
          [] t = "silent running" ->
                <<452, 385, 174, 286, 296, 182, 182, 200, 174, 1000>>
          [] OTHER ->
                <<244, 111, 242, 211, 378, 250, 188, 200, 242, 263>>]

Ratio(transcript, phrase) ==
    LET k == CHOOSE i \in 1..Len(Phrases) : Phrases[i] = phrase
    IN RatioTable[transcript][k]

\* ratio > 0.8
Threshold == 800

\* config["openai"]["contexts"]: the voices and the conversation models.
CoraVoice == "nova"
InitialTddVoice == "onyx"
EmployeeIds == {"echo"}
ConversationModel(c) == IF c = "CORA" THEN "cora_model" ELSE "tdd_model"

\* ------------------------------------------------------- pure operations
\* _select_command_response: the responses a command may answer with (one is
\* drawn at random); none when the list is empty, missing or False.
SelectableResponses(command) ==
    IF command.responses.kind = "list"
    THEN {command.responses.list[i] : i \in 1..Len(command.responses.list)}
    ELSE {}

\* The list comprehension of _execute_instant_activation_command: the commands
\* of a configuration with a non-empty instant_activation list, in
\* configuration order.
InstantActivationCommands(commands) ==
    SelectSeq(commands, LAMBDA c : Len(c.instant_activation) > 0)

\* A slip in the threshold test: a ratio of exactly 0.8 is accepted.
RECURSIVE BestOverPhrasesFromThreshold(_, _, _, _)
BestOverPhrasesFromThreshold(transcript, command, j, best) ==
    IF j > Len(command.instant_activation) THEN best
    ELSE LET ratio == Ratio(transcript, command.instant_activation[j])
             better == ratio >= Threshold /\ ratio > best.best_ratio
         IN BestOverPhrasesFromThreshold(transcript, command, j + 1,
                IF better
                THEN [best_command |-> command, best_ratio |-> ratio]
                ELSE best)

\* A slip in the comparison with the best so far: a later equal ratio wins.
RECURSIVE BestOverPhrasesLaterWins(_, _, _, _)
BestOverPhrasesLaterWins(transcript, command, j, best) ==
    IF j > Len(command.instant_activation) THEN best
    ELSE LET ratio == Ratio(transcript, command.instant_activation[j])
             better == ratio > Threshold /\ ratio >= best.best_ratio
         IN BestOverPhrasesLaterWins(transcript, command, j + 1,
                IF better
                THEN [best_command |-> command, best_ratio |-> ratio]
                ELSE best)

\* The inner loop of the matcher: the phrases of one command, in order.
RECURSIVE BestOverPhrases(_, _, _, _)
BestOverPhrases(transcript, command, j, best) ==
    IF j > Len(command.instant_activation) THEN best
    ELSE LET ratio == Ratio(transcript, command.instant_activation[j])
             better == ratio > Threshold /\ ratio > best.best_ratio
         IN BestOverPhrases(transcript, command, j + 1,
                IF better
                THEN [best_command |-> command, best_ratio |-> ratio]
                ELSE best)

\* The outer loop of the matcher: the instant-activation commands, in order.
RECURSIVE BestOverCommands(_, _, _, _)
BestOverCommands(transcript, instant_activation_commands, i, best) ==
    IF i > Len(instant_activation_commands) THEN best
    ELSE BestOverCommands(transcript, instant_activation_commands, i + 1,
            BestOverPhrases(transcript, instant_activation_commands[i], 1,
                            best))

\* best_command and best_ratio after the loops, for a configuration's
\* commands; NoCommand stands for None.
Match(transcript, commands) ==
    BestOverCommands(transcript, InstantActivationCommands(commands), 1,
        [best_command |-> NoCommand, best_ratio |-> 0])

\* best_command for the configured commands.
BestCommand(transcript) == Match(transcript, Commands).best_command

\* _get_command: the configured command of that name, or None.
GetCommand(command_name) ==
    IF \E i \in 1..Len(Commands) : Commands[i].name = command_name
    THEN Commands[CHOOSE i \in 1..Len(Commands) : Commands[i].name = command_name]
    ELSE NoCommand

\* reset_conversation_history: everything after the system message is dropped.
ResetConversationHistory(msgs) ==
    IF Len(msgs) = 0 THEN msgs ELSE <<msgs[1]>>

\* A slip in the slice: one message is deleted at a time.
RECURSIVE EvictSingles(_, _, _)
EvictSingles(msgs, max_messages, deleted_pairs) ==
    IF Len(msgs) > max_messages
    THEN EvictSingles(<<msgs[1]>> \o SubSeq(msgs, 3, Len(msgs)),
                      max_messages, deleted_pairs + 1)
    ELSE [messages |-> msgs, deleted_pairs |-> deleted_pairs]

\* A slip in the slice: the pair is taken from the front of the list.
RECURSIVE EvictPairsFromFront(_, _, _)
EvictPairsFromFront(msgs, max_messages, deleted_pairs) ==
    IF Len(msgs) > max_messages
    THEN EvictPairsFromFront(SubSeq(msgs, 3, Len(msgs)),
                             max_messages, deleted_pairs + 1)
    ELSE [messages |-> msgs, deleted_pairs |-> deleted_pairs]

\* The inner loop of _cleanup_conversation_history: del self.messages[1:3]
\* while the list is longer than max_messages.
RECURSIVE EvictPairs(_, _, _)
EvictPairs(msgs, max_messages, deleted_pairs) ==
    IF Len(msgs) > max_messages
    THEN EvictPairs(<<msgs[1]>> \o SubSeq(msgs, 4, Len(msgs)),
                    max_messages, deleted_pairs + 1)
    ELSE [messages |-> msgs, deleted_pairs |-> deleted_pairs]

\* A slip in the order of the size-0 branch: the pairs are counted after the
\* reset.
RECURSIVE CleanupLoopCountsLate(_, _, _, _, _)
CleanupLoopCountsLate(msgs, remember_messages, max_messages, deleted_pairs, iterations) ==
    IF Len(msgs) > max_messages
    THEN IF remember_messages = 0
         THEN CleanupLoopCountsLate(
                  ResetConversationHistory(msgs), remember_messages,
                  max_messages,
                  deleted_pairs +
                      ((Len(ResetConversationHistory(msgs)) - 1) \div 2),
                  iterations + 1)
         ELSE LET evicted == EvictPairs(msgs, max_messages, deleted_pairs)
              IN CleanupLoopCountsLate(evicted.messages,
                     remember_messages, max_messages, evicted.deleted_pairs,
                     iterations + 1)
    ELSE [messages |-> msgs, deleted_pairs |-> deleted_pairs,
          iterations |-> iterations]

\* The outer loop of _cleanup_conversation_history: while the list is longer
\* than max_messages, either the whole history is reset (size 0) or pairs are
\* evicted.  iterations counts the runs of the loop body.
RECURSIVE CleanupLoop(_, _, _, _, _)
CleanupLoop(msgs, remember_messages, max_messages, deleted_pairs, iterations) ==
    IF Len(msgs) > max_messages
    THEN IF remember_messages = 0
         THEN CleanupLoop(ResetConversationHistory(msgs), remember_messages,
                          max_messages,
                          deleted_pairs + ((Len(msgs) - 1) \div 2),
                          iterations + 1)
         ELSE LET evicted == EvictPairs(msgs, max_messages, deleted_pairs)
              IN CleanupLoop(evicted.messages, remember_messages,
                             max_messages, evicted.deleted_pairs,
                             iterations + 1)
    ELSE [messages |-> msgs, deleted_pairs |-> deleted_pairs,
          iterations |-> iterations]

\* _cleanup_conversation_history.  messages_buffer_value is self.messages_buffer
\* as an optional value: <<>> is None (no limit), <<R>> is the size R.
CleanupConversationHistory(msgs, messages_buffer_value) ==
    IF messages_buffer_value = <<>>
    THEN [messages |-> msgs, deleted_pairs |-> 0, iterations |-> 0]
    ELSE LET remember_messages == messages_buffer_value[1]
         IN CleanupLoop(msgs, remember_messages,
                        (remember_messages * 2) + 1, 0, 0)

\* ---------------------------------------------------------------- state
VARIABLES
    messages,              \* self.messages: the active message sequence
    current_context,       \* self.current_context
    current_tools,         \* self.current_tools
    messages_buffer,       \* self.messages_buffer: the retention size
    contexts_history,      \* self.contexts_history: the context store
    config,                \* the side configuration kept in self.config
    tdd_voice,             \* self.tdd_voice
    current_user_request,  \* self.current_user_request
    pc,                    \* where the turn in progress stands
    turn,                  \* number of the turn in progress (or of the last)
    pending,               \* tool calls of the completion being dispatched
    next_call,             \* position of the next tool call to dispatch
    dispatched,            \* tool calls dispatched so far, over all turns
    result,                \* how the turn ended, and with what (pending in a turn)
    turn_log,              \* what the turn in progress has done so far
    turn_start,            \* active sequence and store when the turn started
    last_switch,           \* the last switch_context dispatch, before/after
    before_detour,         \* per context left: its sequence before the turn
                           \* in which it was left
    fn_args,               \* the arguments of an operation tried by itself
    fn_result,             \* and what it returned
    objects,               \* the list objects behind self.messages and the
                           \* store entries, where identity matters
    inbox                  \* the transcripts that have arrived, in order

\* The variables of the session and of its turns.
turn_vars == <<messages, current_context, current_tools, messages_buffer,
               contexts_history, config, tdd_voice, current_user_request, pc,
               turn, pending, next_call, dispatched, result, turn_log,
               turn_start, last_switch, before_detour>>

vars == <<messages, current_context, current_tools, messages_buffer,
          contexts_history, config, tdd_voice, current_user_request, pc, turn,
          pending, next_call, dispatched, result, turn_log, turn_start,
          last_switch, before_detour, fn_args, fn_result, objects, inbox>>

\* The list objects after __init__: self.messages is the list that
\* _set_current_context builds, and the store is empty.  A list object is
\* known by its position in lists.
ConstructedObjects ==
    [lists |-> << <<SystemMsg("CORA")>> >>, messages |-> 1,
     contexts_history |-> <<>>, current_context |-> "CORA"]

\* The orchestrator takes a transcript only when the turn before has run to
\* completion.
OrchestratorFreeDuringDispatch == pc \in {"idle", "tools"}

OrchestratorFree == pc = "idle"

\* The session state as one record, for the operations below.
Session ==
    [messages |-> messages, current_context |-> current_context,
     current_tools |-> current_tools, messages_buffer |-> messages_buffer,
     contexts_history |-> contexts_history, config |-> config,
     tdd_voice |-> tdd_voice]

\* The session state after a step.
SessionBecomes(S) ==
    /\ messages' = S.messages
    /\ current_context' = S.current_context
    /\ current_tools' = S.current_tools
    /\ messages_buffer' = S.messages_buffer
    /\ contexts_history' = S.contexts_history
    /\ config' = S.config
    /\ tdd_voice' = S.tdd_voice

\* A slip in the TDD branch: the initial employee voice is configured, not
\* the current one.
SideConfigInitialVoice(c, voice) ==
    IF c = "CORA"
    THEN [tts_voice |-> CoraVoice, play_beep_on_receiving |-> FALSE,
          enable_radio_sound_effect |-> FALSE,
          enable_robot_sound_effect |-> TRUE,
          conversation_model |-> ConversationModel("CORA")]
    ELSE [tts_voice |-> InitialTddVoice, play_beep_on_receiving |-> TRUE,
          enable_radio_sound_effect |-> TRUE,
          enable_robot_sound_effect |-> FALSE,
          conversation_model |-> ConversationModel("TDD")]

\* The side configuration the code sets for a context (in __init__ for CORA,
\* in _execute_switch_context_function for both).
SideConfig(c, voice) ==
    IF c = "CORA"
    THEN [tts_voice |-> CoraVoice, play_beep_on_receiving |-> FALSE,
          enable_radio_sound_effect |-> FALSE,
          enable_robot_sound_effect |-> TRUE,
          conversation_model |-> ConversationModel("CORA")]
    ELSE [tts_voice |-> voice, play_beep_on_receiving |-> TRUE,
          enable_radio_sound_effect |-> TRUE,
          enable_robot_sound_effect |-> FALSE,
          conversation_model |-> ConversationModel("TDD")]

\* _save_current_context: the store entry of the current context becomes a
\* copy of the active sequence, with the current tools.
SaveCurrentContext(S) ==
    LET entry == [messages |-> S.messages, tools |-> S.current_tools]
    IN [S EXCEPT !.contexts_history =
            [c \in DOMAIN S.contexts_history \cup {S.current_context} |->
                IF c = S.current_context THEN entry
                ELSE S.contexts_history[c]]]

\* A slip in the restore branch: the saved entry is taken out of the store.
SetCurrentContextPopsEntry(S, new_context, new) ==
    LET activated ==
            IF new
            THEN [S EXCEPT !.current_context = new_context,
                           !.current_tools = GetContextTools(new_context),
                           !.messages = <<SystemMsg(new_context)>>]
            ELSE [S EXCEPT !.current_context = new_context,
                           !.current_tools =
                               S.contexts_history[new_context].tools,
                           !.messages =
                               S.contexts_history[new_context].messages,
                           !.contexts_history =
                               [c \in DOMAIN S.contexts_history
                                        \ {new_context} |->
                                    S.contexts_history[c]]]
    IN [activated EXCEPT !.messages_buffer =
            IF new_context = "CORA" THEN CoraBuffer ELSE TddBuffer]

\* A slip in the branch for a new context: the message list is not rebuilt.
SetCurrentContextKeepsMessages(S, new_context, new) ==
    LET activated ==
            IF new
            THEN [S EXCEPT !.current_context = new_context,
                           !.current_tools = GetContextTools(new_context)]
            ELSE [S EXCEPT !.current_context = new_context,
                           !.current_tools =
                               S.contexts_history[new_context].tools,
                           !.messages =
                               S.contexts_history[new_context].messages]
    IN [activated EXCEPT !.messages_buffer =
            IF new_context = "CORA" THEN CoraBuffer ELSE TddBuffer]

\* A slip in the placement of the size: it is set for a new context only.
SetCurrentContextSizeOnlyWhenNew(S, new_context, new) ==
    IF new
    THEN [S EXCEPT !.current_context = new_context,
                   !.current_tools = GetContextTools(new_context),
                   !.messages = <<SystemMsg(new_context)>>,
                   !.messages_buffer =
                       IF new_context = "CORA" THEN CoraBuffer ELSE TddBuffer]
    ELSE [S EXCEPT !.current_context = new_context,
                   !.current_tools = S.contexts_history[new_context].tools,
                   !.messages = S.contexts_history[new_context].messages]

\* A slip in the restore branch: the saved tools are not put back.
SetCurrentContextKeepsTools(S, new_context, new) ==
    LET activated ==
            IF new
            THEN [S EXCEPT !.current_context = new_context,
                           !.current_tools = GetContextTools(new_context),
                           !.messages = <<SystemMsg(new_context)>>]
            ELSE [S EXCEPT !.current_context = new_context,
                           !.messages =
                               S.contexts_history[new_context].messages]
    IN [activated EXCEPT !.messages_buffer =
            IF new_context = "CORA" THEN CoraBuffer ELSE TddBuffer]

\* _set_current_context(new_context, new).
SetCurrentContext(S, new_context, new) ==
    LET activated ==
            IF new
            THEN [S EXCEPT !.current_context = new_context,
                           !.current_tools = GetContextTools(new_context),
                           !.messages = <<SystemMsg(new_context)>>]
            ELSE [S EXCEPT !.current_context = new_context,
                           !.current_tools =
                               S.contexts_history[new_context].tools,
                           !.messages =
                               S.contexts_history[new_context].messages]
    IN [activated EXCEPT !.messages_buffer =
            IF new_context = "CORA" THEN CoraBuffer ELSE TddBuffer]

\* _switch_context(new_context_name).  The enum lookup raises ValueError for a
\* name that is no value; the handler catches AttributeError only, so the
\* ValueError leaves the method.
SwitchContext(S, new_context_name) ==
    LET context_to_switch_to == AIContextLookup(new_context_name)
    IN IF context_to_switch_to = "ValueError"
       THEN [session |-> S, raised |-> "ValueError"]
       ELSE [session |->
                SetCurrentContext(SaveCurrentContext(S), context_to_switch_to,
                    context_to_switch_to \notin DOMAIN S.contexts_history),
             raised |-> "none"]

\* function_response of _execute_switch_context_function.
SwitchedResponse(context_name) ==
    CASE context_name = "CoraInteractionRequests" ->
            "switched to context CoraInteractionRequests, reevaluate the user request, keep the users language"
      [] context_name = "TradeAndDevelopmentDivisionRequests" ->
            "switched to context TradeAndDevelopmentDivisionRequests, reevaluate the user request, keep the users language"
      [] OTHER -> "switched to context CORA, reevaluate the user request, keep the users language"

\* A slip in the slice: only the last message is carried over.
LastOne(msgs) == SubSeq(msgs, Len(msgs), Len(msgs))

\* The messages _execute_switch_context_function takes off the active
\* sequence: context_messages = self.messages[-2:].
LastTwo(msgs) == SubSeq(msgs, Len(msgs) - 1, Len(msgs))

\* del self.messages[-2:]
WithoutLastTwo(msgs) == SubSeq(msgs, 1, Len(msgs) - 2)

\* _execute_switch_context_function(function_args).  With fewer than three
\* messages context_messages stays None and self.messages.extend(None) raises
\* TypeError, after the switch and the side configuration were done.
ExecuteSwitchContextFunction(S, context_name) ==
    LET detach == Len(S.messages) >= 3
        context_messages == IF detach THEN LastTwo(S.messages) ELSE <<>>
        S1 == IF detach
              THEN [S EXCEPT !.messages = WithoutLastTwo(S.messages)]
              ELSE S
        sw == SwitchContext(S1, context_name)
        S2 == [sw.session EXCEPT !.config =
                  SideConfig(sw.session.current_context, sw.session.tdd_voice)]
    IN IF sw.raised # "none"
       THEN [session |-> sw.session, raised |-> sw.raised,
             detached |-> context_messages, function_response |-> ""]
       ELSE IF ~detach
       THEN [session |-> S2, raised |-> "TypeError",
             detached |-> context_messages, function_response |-> ""]
       ELSE [session |-> [S2 EXCEPT !.messages = @ \o context_messages],
             raised |-> "none", detached |-> context_messages,
             function_response |-> SwitchedResponse(context_name)]

\* ----------------------------------------------------- command execution
\* None and False, as values a method returns.
NoneValue == "<None>"

\* The truth value Python gives a returned string (None and "" are false).
Truthy(x) == x \notin {NoneValue, ""}

SuccessInstruction == "{success: true, instruction: no function call}"

\* The keybindings the keybinding service knows, and config["avoid-commands"].
KeybindingNames == {"v_toggle_landing_gear", "v_afterburner", "v_scan",
                    "v_self_destruct", "v_eject"}
AvoidCommands == {"v_self_destruct", "v_eject"}

\* What the collaborators are asked to do: a call of key_module that presses
\* the keys of a command or keybinding, or raises.
KeyEvent(pressed, raised) ==
    [collaborator |-> "key_module", pressed |-> pressed, raised |-> raised]

\* The exceptions the collaborators raise.
KeyModuleError == "KeyModuleError"
ProviderError == "ProviderError"

\* execute_keypress(command): one press for each entry of keys; the first
\* call of key_module raises when key_module_raises.  Nothing is caught.
RECURSIVE ExecuteKeypress(_, _, _)
ExecuteKeypress(keys, i, key_module_raises) ==
    IF i > Len(keys) THEN <<>>
    ELSE IF key_module_raises THEN <<KeyEvent(keys[i], TRUE)>>
    ELSE <<KeyEvent(keys[i], FALSE)>>
            \o ExecuteKeypress(keys, i + 1, key_module_raises)

\* A slip in the test of the command's name: every command resets.
ExecuteCommandResetsAlways(msgs, command, key_module_raises) ==
    LET events == ExecuteKeypress(command.keys, 1, key_module_raises)
        raised == Len(command.keys) > 0 /\ key_module_raises
    IN [messages |-> IF raised THEN msgs ELSE ResetConversationHistory(msgs),
        responses |-> IF SelectableResponses(command) # {}
                      THEN SelectableResponses(command) ELSE {"Ok"},
        events |-> events,
        raised |-> IF raised THEN KeyModuleError ELSE "none"]

\* _execute_command(command), for a command with no sc_commands: the keys are
\* pressed, the command named ResetConversationHistory resets the active
\* sequence, and one response (or "Ok") is returned.  An exception of
\* key_module leaves the method before the reset.
ExecuteCommand(msgs, command, key_module_raises) ==
    LET events == ExecuteKeypress(command.keys, 1, key_module_raises)
        raised == Len(command.keys) > 0 /\ key_module_raises
    IN [messages |-> IF command.name = "ResetConversationHistory" /\ ~raised
                     THEN ResetConversationHistory(msgs) ELSE msgs,
        responses |-> IF SelectableResponses(command) # {}
                      THEN SelectableResponses(command) ELSE {"Ok"},
        events |-> events,
        raised |-> IF raised THEN KeyModuleError ELSE "none"]

\* The calls of key_module in _execute_star_citizen_keymapping_command: none
\* for a name the keybinding service does not know or that is to be avoided.
KeymappingEvents(command_name, key_module_raises) ==
    IF command_name \notin KeybindingNames THEN <<>>
    ELSE IF command_name \in AvoidCommands THEN <<>>
    ELSE <<KeyEvent(command_name, key_module_raises)>>

\* The loop over sc_commands in _execute_star_citizen_command_overwrite: each
\* one is executed as a keybinding, whatever the one before returned.
RECURSIVE ExecuteScCommands(_, _, _)
ExecuteScCommands(sc_commands, i, key_module_raises) ==
    IF i > Len(sc_commands) THEN <<>>
    ELSE KeymappingEvents(sc_commands[i], key_module_raises)
            \o ExecuteScCommands(sc_commands, i + 1, key_module_raises)

\* _execute_star_citizen_command_overwrite(command): the messages afterwards,
\* the values it may return, the calls of key_module and the exception that
\* leaves it.
ExecuteStarCitizenCommandOverwrite(msgs, command, key_module_raises) ==
    IF command = NoCommand
    THEN [messages |-> msgs, responses |-> {"Command not found"},
          events |-> <<>>, raised |-> "none"]
    ELSE IF Len(command.sc_commands) = 0
    THEN ExecuteCommand(msgs, command, key_module_raises)
    ELSE [messages |-> msgs,
          responses |-> IF SelectableResponses(command) # {}
                        THEN SelectableResponses(command)
                        ELSE {SuccessInstruction},
          events |-> ExecuteScCommands(command.sc_commands, 1,
                                       key_module_raises),
          raised |-> "none"]

\* A slip in the test of responses: False is answered like an empty list.
ExecuteInstantActivationFalseAsNone(msgs, transcript) ==
    LET best_command == BestCommand(transcript)
        done == ExecuteStarCitizenCommandOverwrite(msgs, best_command, FALSE)
    IN [messages |-> done.messages,
        best_command |-> best_command,
        events |-> done.events,
        returns |->
            IF best_command = NoCommand THEN {NoneValue}
            ELSE IF SelectableResponses(best_command) = {} THEN {NoneValue}
            ELSE SelectableResponses(best_command)]

\* _execute_instant_activation_command(transcript): the command matched and
\* executed (with a key module that does not fail), the messages afterwards,
\* the calls of key_module and the values it may return.
ExecuteInstantActivationCommand(msgs, transcript) ==
    LET best_command == BestCommand(transcript)
        done == ExecuteStarCitizenCommandOverwrite(msgs, best_command, FALSE)
    IN [messages |-> done.messages,
        best_command |-> best_command,
        events |-> done.events,
        returns |->
            IF best_command = NoCommand THEN {NoneValue}
            ELSE IF best_command.responses.kind = "false" THEN {"Ok"}
            ELSE IF SelectableResponses(best_command) = {} THEN {NoneValue}
            ELSE SelectableResponses(best_command)]

\* A slip in the test of the text: "Ok" is played like any other text.
PlaysAnyText(text) == Truthy(text)

\* _play_to_user(text) plays unless the text is empty or "Ok".
Plays(text) == Truthy(text) /\ text # "Ok"

\* The trade functions the model calls in the turns modelled here.
TradeFunctionArgs == {"find_best_trade_route_from_location"}

\* The function names of the turns in which the collaborators are watched:
\* the five trade functions and a name no branch of the dispatcher tests.
DispatchFunctionArgs == TradeFunctions \cup {"play_music"}

\* The command names the model may send with execute_command.
CommandNameArgs == {"ResetConversationHistory", "OpenDoors"}

\* The command names of the turns in which the collaborators are watched:
\* configured commands with keys and with sc_commands, a keybinding, a
\* keybinding to avoid, a configured command with the name of a keybinding
\* to avoid and a name nobody knows.
DispatchCommandNameArgs ==
    {"OpenDoors", "Afterburner", "v_toggle_landing_gear", "v_self_destruct",
     "v_eject", "FlyToTheMoon"}

\* json.dumps({"success": "False", "error": f"{e}"}) of the except branch.
KeymappingFailure == "{\"success\": \"False\", \"error\": \"KeyModuleError\"}"

\* A slip in the error text: the command is not named.
KeymappingResponseUnnamed(command_name, key_module_raises) ==
    IF command_name \notin KeybindingNames
    THEN "{\"success\": false, \"error\": \"Command not found\"}"
    ELSE IF command_name \in AvoidCommands
    THEN "{\"success\": false, \"error\": \"Command not allowed\"}"
    ELSE IF key_module_raises THEN KeymappingFailure
    ELSE "Ok"

\* function_response of _execute_star_citizen_keymapping_command (for the
\* supported activation modes).
KeymappingResponse(command_name, key_module_raises) ==
    IF command_name \notin KeybindingNames
    THEN "{\"success\": false, \"error\": \"Command not found "
            \o command_name \o "\"}"
    ELSE IF command_name \in AvoidCommands
    THEN "{\"success\": false, \"error\": \"Command not allowed "
            \o command_name \o "\"}"
    ELSE IF key_module_raises THEN KeymappingFailure
    ELSE "Ok"

\* The arguments the model sends with each function: the names of locations
\* and commodities, under the parameter names of the tool.
FunctionArgs(function_name) ==
    CASE function_name = "find_best_trade_route_from_location" ->
            {[location_name |-> "Lorville"]}
      [] function_name = "find_best_trade_route_between_locations" ->
            {[location_name_from |-> "Lorville",
              location_name_to |-> "Area18"]}
      [] function_name = "find_best_sell_price_for_commodity_at_location" ->
            {[location_name_to |-> "Area18", commodity_name |-> "Gold"]}
      [] function_name = "find_best_trade_route_for_commodity" ->
            {[commodity_name |-> "Gold"]}
      [] function_name = "find_best_selling_location_for_commodity" ->
            {[commodity_name |-> "Laranite"]}
      [] OTHER -> {[title |-> "Space Oddity"]}

\* A slip in the keyword arguments: the two locations change places.
TradeQuerySwapsLocations(function_name, function_args) ==
    CASE function_name = "find_best_trade_route_from_location" ->
            [query |-> "find_best_trade_from_location",
             args |-> [location_name |-> function_args.location_name]]
      [] function_name = "find_best_trade_route_between_locations" ->
            [query |-> "find_best_trade_between_locations",
             args |-> [location_name1 |-> function_args.location_name_to,
                       location_name2 |-> function_args.location_name_from]]
      [] function_name = "find_best_sell_price_for_commodity_at_location" ->
            [query |-> "find_best_sell_price_at_location",
             args |-> [location_name |-> function_args.location_name_to,
                       commodity_name |-> function_args.commodity_name]]
      [] function_name = "find_best_trade_route_for_commodity" ->
            [query |-> "find_best_trade_for_commodity",
             args |-> [commodity_name |-> function_args.commodity_name]]
      [] function_name = "find_best_selling_location_for_commodity" ->
            [query |-> "find_best_selling_location_for_commodity",
             args |-> [commodity_name |-> function_args.commodity_name]]

\* The routing of _execute_command_by_function_call: the method of
\* self.uex_service each trade function calls, and its keyword arguments.
TradeQuery(function_name, function_args) ==
    CASE function_name = "find_best_trade_route_from_location" ->
            [query |-> "find_best_trade_from_location",
             args |-> [location_name |-> function_args.location_name]]
      [] function_name = "find_best_trade_route_between_locations" ->
            [query |-> "find_best_trade_between_locations",
             args |-> [location_name1 |-> function_args.location_name_from,
                       location_name2 |-> function_args.location_name_to]]
      [] function_name = "find_best_sell_price_for_commodity_at_location" ->
            [query |-> "find_best_sell_price_at_location",
             args |-> [location_name |-> function_args.location_name_to,
                       commodity_name |-> function_args.commodity_name]]
      [] function_name = "find_best_trade_route_for_commodity" ->
            [query |-> "find_best_trade_for_commodity",
             args |-> [commodity_name |-> function_args.commodity_name]]
      [] function_name = "find_best_selling_location_for_commodity" ->
            [query |-> "find_best_selling_location_for_commodity",
             args |-> [commodity_name |-> function_args.commodity_name]]

\* What the trading provider may answer with, and the answer of the turns
\* in which it is not watched.
ProviderResult == [success |-> TRUE, message |-> "route found"]
ProviderResults == {ProviderResult, [success |-> FALSE, message |-> "no route"]}

\* What a call of the trading provider may do: return a result or raise.
ProviderReturns == {[raises |-> FALSE, value |-> ProviderResult]}
ProviderOutcomes ==
    {[raises |-> FALSE, value |-> v] : v \in ProviderResults}
        \cup {[raises |-> TRUE, value |-> ProviderResult]}

\* json.dumps of a result of the trading provider.
JsonDumps(value) ==
    "{\"success\": " \o (IF value.success THEN "true" ELSE "false")
        \o ", \"message\": \"" \o value.message \o "\"}"

\* A call of self.uex_service.
ProviderEvent(call, provider) ==
    [collaborator |-> "uex_service", query |-> call.query,
     args |-> call.args, raised |-> provider.raises,
     returned |-> provider.value]

\* -------------------------------------------------------------- the turn
NoSwitch == [turn |-> 0]

\* No call to the LLM was made in the turn.
NoGptCall == [context |-> "none"]

\* self.openai.ask(messages=self.messages, tools=self.current_tools) in
\* _gpt_call: what the LLM is called with, in the state it is called in.
GptCall == [context |-> current_context, tools |-> current_tools,
            messages |-> messages]

\* No operation is tried by itself.
NoCall == [op |-> "none"]
NotReturned == [done |-> FALSE]

\* The session after __init__.
Constructed ==
    /\ messages = <<SystemMsg("CORA")>>
    /\ current_context = "CORA"
    /\ current_tools = GetContextTools("CORA")
    /\ messages_buffer = CoraBuffer
    /\ contexts_history = <<>>
    /\ config = SideConfig("CORA", InitialTddVoice)
    /\ tdd_voice = InitialTddVoice
    /\ current_user_request = NoneValue
    /\ pc = "idle"
    /\ turn = 0
    /\ pending = 0
    /\ next_call = 0
    /\ dispatched = 0
    /\ result = [outcome |-> "none", value |-> NoneValue]
    /\ turn_log = [matched |-> NoCommand, llm_calls |-> 0, played |-> 0,
                   none_completion |-> FALSE, gpt_call |-> NoGptCall,
                   instant_response |-> NoneValue, calls |-> <<>>,
                   events |-> <<>>]
    /\ turn_start = [messages |-> <<SystemMsg("CORA")>>,
                     contexts_history |-> <<>>]
    /\ last_switch = NoSwitch
    /\ before_detour = <<>>
    /\ objects = ConstructedObjects
    /\ inbox = <<>>

Init ==
    /\ Constructed
    /\ fn_args = NoCall
    /\ fn_result = NotReturned

\* What every turn does first: _get_response_for_transcript up to the test of
\* instant_response.
TurnStarts(transcript) ==
    /\ OrchestratorFree
    /\ turn < MaxTurns
    /\ turn' = turn + 1
    /\ current_user_request' = transcript
    /\ turn_start' = [messages |-> messages,
                      contexts_history |-> contexts_history]

\* A turn that ends on the instant path: the matcher's command was executed
\* and returned a true value, which is the turn's result.
InstantTurn(transcript) ==
    LET instant == ExecuteInstantActivationCommand(messages, transcript)
    IN /\ TurnStarts(transcript)
       /\ \E instant_response \in instant.returns :
            /\ Truthy(instant_response)
            /\ result' = [outcome |-> "instant", value |-> instant_response]
       /\ messages' = instant.messages
       /\ turn_log' = [matched |-> instant.best_command, llm_calls |-> 0,
                       played |-> 0, none_completion |-> FALSE,
                       gpt_call |-> NoGptCall,
                       instant_response |-> NoneValue, calls |-> <<>>,
                       events |-> instant.events]
       /\ UNCHANGED <<current_context, current_tools, messages_buffer,
                      contexts_history, config, tdd_voice, pc, pending,
                      next_call, dispatched, last_switch,
                   before_detour, fn_args, fn_result, objects, inbox>>

\* _add_user_message(content): the history is cleaned up, then the user
\* message is appended.
AddUserMessage(msgs, buffer, t) ==
    Append(CleanupConversationHistory(msgs, <<buffer>>).messages, UserMsg(t))

\* A turn that goes on to the LLM: the matcher's call returned None (nothing
\* matched, or the matched command has no responses); the user message is
\* added and the completion is requested.
BeginTurn(transcript) ==
    LET instant == ExecuteInstantActivationCommand(messages, transcript)
    IN /\ TurnStarts(transcript)
       /\ \E instant_response \in instant.returns :
            ~Truthy(instant_response)
       /\ messages' = AddUserMessage(instant.messages, messages_buffer,
                                     turn + 1)
       /\ pc' = "gpt"
       /\ turn_log' = [matched |-> instant.best_command, llm_calls |-> 1,
                       played |-> 0, none_completion |-> FALSE,
                       gpt_call |->
                           [context |-> current_context,
                            tools |-> current_tools,
                            messages |-> messages'],
                       instant_response |-> NoneValue, calls |-> <<>>,
                       events |-> instant.events]
       /\ result' = [outcome |-> "pending", value |-> NoneValue]
       /\ UNCHANGED <<current_context, current_tools, messages_buffer,
                      contexts_history, config, tdd_voice, pending, next_call,
                      dispatched, last_switch,
                   before_detour, fn_args, fn_result, objects, inbox>>

\* _make_gpt_call returns (None, None) when the transport gives no completion;
\* _get_response_for_transcript then reads response_message.content of None,
\* which raises AttributeError.
GptNone ==
    /\ pc = "gpt"
    /\ pc' = "idle"
    /\ result' = [outcome |-> "raised", value |-> "AttributeError"]
    /\ turn_log' = [turn_log EXCEPT !.none_completion = TRUE]
    /\ UNCHANGED <<messages, current_context, current_tools, messages_buffer,
                   contexts_history, config, tdd_voice, current_user_request,
                   turn, pending, next_call, dispatched, turn_start,
                   last_switch,
                   before_detour, fn_args, fn_result, objects, inbox>>

\* A completion without tool calls: its message is appended and its content
\* is the turn's result.
GptText ==
    /\ pc = "gpt"
    /\ messages' = Append(messages, AssistantMsg(turn, 0))
    /\ pc' = "idle"
    /\ result' = [outcome |-> "text", value |-> "completion"]
    /\ UNCHANGED <<current_context, current_tools, messages_buffer,
                   contexts_history, config, tdd_voice, current_user_request,
                   turn, pending, next_call, dispatched, turn_log, turn_start,
                   last_switch,
                   before_detour, fn_args, fn_result, objects, inbox>>

\* A completion with n tool calls: its message is appended and
\* _handle_tool_calls starts.  (The calls themselves are drawn when they are
\* dispatched: the handling of a call does not depend on the calls after it.)
GptToolCalls(n) ==
    /\ pc = "gpt"
    /\ dispatched + n <= MaxDispatched
    /\ messages' = Append(messages, AssistantMsg(turn, n))
    /\ pc' = "tools"
    /\ pending' = n
    /\ next_call' = 1
    /\ UNCHANGED <<current_context, current_tools, messages_buffer,
                   contexts_history, config, tdd_voice, current_user_request,
                   turn, dispatched, result, turn_log, turn_start,
                   last_switch,
                   before_detour, fn_args, fn_result, objects, inbox>>

\* ----------------------------------------------------- tool-call dispatch
\* A slip in the test before the playback: the instant_activation phrases are
\* tested instead of the responses.
PlaysResponseOfInstantCommands(command, instant_response) ==
    /\ command # NoCommand
    /\ Len(command.instant_activation) > 0
    /\ Plays(instant_response)

\* The playback of _execute_command_by_function_call: a configured command
\* with responses has the selected one played (by _play_to_user, which skips
\* an empty text and "Ok").
PlaysResponse(command, instant_response) ==
    /\ command # NoCommand
    /\ SelectableResponses(command) # {}
    /\ Plays(instant_response)

\* What the loop of _handle_tool_calls keeps of a call that returned: its
\* instant_response (the value returned after the last call), whether a
\* response was played, and what the call asked of the collaborators.
CallReturns(function_name, argument, instant_response, played, events) ==
    turn_log' = [turn_log EXCEPT
                    !.instant_response = instant_response,
                    !.played = IF played THEN @ + 1 ELSE @,
                    !.events = @ \o events,
                    !.calls = Append(@, [function_name |-> function_name,
                                         argument |-> argument,
                                         instant_response |->
                                             instant_response])]

\* A slip after the loop: the LLM is asked again after the last tool result,
\* as a retry in the switched context would do.
ToolCallDoneReinvokesLlm(S, function_name, function_response) ==
    /\ SessionBecomes([S EXCEPT !.messages =
            Append(@, ToolMsg(turn, next_call, function_name,
                              function_response))])
    /\ next_call' = next_call + 1
    /\ dispatched' = dispatched + 1
    /\ pc' = IF next_call = pending THEN "gpt" ELSE "tools"
    /\ UNCHANGED <<current_user_request, turn, pending, turn_start>>

\* The end of one iteration of the loop of _handle_tool_calls: the tool
\* message of the call is appended to S.messages and the loop moves on; after
\* the last call _handle_tool_calls returns and the summary is requested.
ToolCallDone(S, function_name, function_response) ==
    /\ SessionBecomes([S EXCEPT !.messages =
            Append(@, ToolMsg(turn, next_call, function_name,
                              function_response))])
    /\ next_call' = next_call + 1
    /\ dispatched' = dispatched + 1
    /\ pc' = IF next_call = pending THEN "summarize" ELSE "tools"
    /\ UNCHANGED <<current_user_request, turn, pending, turn_start>>

\* An exception that leaves _execute_command_by_function_call also leaves
\* _handle_tool_calls and _get_response_for_transcript: the turn is over, no
\* tool message is appended for the call.
ToolCallRaises(S, exception) ==
    /\ SessionBecomes(S)
    /\ next_call' = next_call
    /\ dispatched' = dispatched + 1
    /\ pc' = "idle"
    /\ result' = [outcome |-> "raised", value |-> exception]
    /\ UNCHANGED <<current_user_request, turn, pending, turn_start>>

\* switch_context: _execute_switch_context_function.
DispatchSwitchContext(context_name) ==
    LET r == ExecuteSwitchContextFunction(Session, context_name)
    IN /\ pc = "tools"
       /\ last_switch' =
            [turn |-> turn, position |-> next_call, calls |-> pending,
             context_name |-> context_name, pre |-> Session,
             post |-> r.session, detached |-> r.detached,
             raised |-> r.raised, function_response |-> r.function_response]
       /\ before_detour' =
            IF r.session.current_context # current_context
            THEN [c \in DOMAIN before_detour \cup {current_context} |->
                    IF c = current_context
                    THEN SelectSeq(messages, LAMBDA m : m.turn # turn)
                    ELSE before_detour[c]]
            ELSE before_detour
       /\ IF r.raised = "none"
          THEN /\ ToolCallDone(r.session, "switch_context",
                               r.function_response)
               /\ CallReturns("switch_context", context_name, NoneValue,
                              FALSE, <<>>)
               /\ UNCHANGED result
          ELSE /\ ToolCallRaises(r.session, r.raised)
               /\ UNCHANGED turn_log
       /\ UNCHANGED <<fn_args, fn_result, objects, inbox>>

\* instant_response of _execute_star_citizen_keymapping_command.
KeymappingInstantResponse(command_name, key_module_raises) ==
    IF command_name \notin KeybindingNames
    THEN "Command not found " \o command_name
    ELSE IF command_name \in AvoidCommands
    THEN "Command not allowed " \o command_name
    ELSE IF key_module_raises THEN NoneValue
    ELSE "Ok"

\* The instant responses an execute_command call may return: one of the
\* responses of a configured command that has some (drawn again, apart from
\* the function response), "" for a configured command without, and what the
\* keymapping command returns for any other name.
InstantResponses(command_name, key_module_raises) ==
    LET command == GetCommand(command_name)
    IN IF command = NoCommand
       THEN {KeymappingInstantResponse(command_name, key_module_raises)}
       ELSE IF SelectableResponses(command) # {}
       THEN SelectableResponses(command)
       ELSE {""}

\* execute_command: a configured command is executed by
\* _execute_star_citizen_command_overwrite, any other name by
\* _execute_star_citizen_keymapping_command; a configured command with
\* responses has one of them played.  An exception of key_module that
\* leaves the execution of a configured command leaves the dispatcher.
DispatchExecuteCommand(command_name, key_module_raises) ==
    LET command == GetCommand(command_name)
        done == ExecuteStarCitizenCommandOverwrite(messages, command,
                                                   key_module_raises)
        events == IF command # NoCommand THEN done.events
                  ELSE KeymappingEvents(command_name, key_module_raises)
    IN /\ pc = "tools"
       /\ IF done.raised # "none"
          THEN /\ ToolCallRaises(Session, done.raised)
               /\ turn_log' = [turn_log EXCEPT !.events = @ \o events]
          ELSE /\ \E function_response \in
                      IF command # NoCommand THEN done.responses
                      ELSE {KeymappingResponse(command_name,
                                               key_module_raises)} :
                    ToolCallDone([Session EXCEPT !.messages =
                                    IF command # NoCommand THEN done.messages
                                    ELSE @],
                                 "execute_command", function_response)
               /\ \E instant_response \in
                      InstantResponses(command_name, key_module_raises) :
                    CallReturns("execute_command", command_name,
                                instant_response,
                                PlaysResponse(command, instant_response),
                                events)
               /\ UNCHANGED result
       /\ UNCHANGED <<last_switch,
                   before_detour, fn_args, fn_result, objects, inbox>>

\* A slip in switch_tdd_employee: the whole TDD side configuration is applied.
DispatchSwitchTddEmployeeConfiguresTdd(employee_id) ==
    /\ pc = "tools"
    /\ ToolCallDone([Session EXCEPT !.tdd_voice = employee_id,
                                    !.config = SideConfig("TDD", employee_id)],
                    "switch_tdd_employee", "{\"success\": \"True\"}")
    /\ CallReturns("switch_tdd_employee", employee_id, NoneValue, FALSE,
                   <<>>)
    /\ UNCHANGED <<result, last_switch,
                   before_detour, fn_args, fn_result, objects, inbox>>

\* switch_tdd_employee: the TDD voice and the configured voice change.
DispatchSwitchTddEmployee(employee_id) ==
    /\ pc = "tools"
    /\ ToolCallDone([Session EXCEPT !.tdd_voice = employee_id,
                                    !.config.tts_voice = employee_id],
                    "switch_tdd_employee", "{\"success\": \"True\"}")
    /\ CallReturns("switch_tdd_employee", employee_id, NoneValue, FALSE,
                   <<>>)
    /\ UNCHANGED <<result, last_switch,
                   before_detour, fn_args, fn_result, objects, inbox>>

\* The branches after switch_tdd_employee: each of the five trade functions
\* calls its method of self.uex_service and returns the result serialised;
\* any other name falls through with the initial "" and "".  Nothing catches
\* an exception of the provider.
DispatchTrade(function_name, function_args, provider) ==
    LET routed == function_name \in TradeFunctions
        called == <<ProviderEvent(TradeQuery(function_name, function_args),
                                  provider)>>
    IN /\ pc = "tools"
       /\ IF routed /\ provider.raises
          THEN /\ ToolCallRaises(Session, ProviderError)
               /\ turn_log' = [turn_log EXCEPT !.events = @ \o called]
          ELSE /\ ToolCallDone(Session, function_name,
                               IF routed THEN JsonDumps(provider.value)
                               ELSE "")
               /\ CallReturns(function_name, "", "", FALSE,
                              IF routed THEN called ELSE <<>>)
               /\ UNCHANGED result
       /\ UNCHANGED <<last_switch,
                   before_detour, fn_args, fn_result, objects, inbox>>

\* _summarize_function_calls and _finalize_response: one more LLM call; its
\* message, when there is one, is appended and is the turn's result.
Summarize(completion) ==
    /\ pc = "summarize"
    /\ messages' = IF completion THEN Append(messages, SummaryMsg(turn))
                   ELSE messages
    /\ pc' = "idle"
    /\ result' = [outcome |-> "summary",
                  value |-> IF completion THEN "summary" ELSE NoneValue]
    /\ turn_log' = [turn_log EXCEPT !.llm_calls = @ + 1,
                                    !.gpt_call = GptCall]
    /\ UNCHANGED <<current_context, current_tools, messages_buffer,
                   contexts_history, config, tdd_voice, current_user_request,
                   turn, pending, next_call, dispatched, turn_start,
                   last_switch,
                   before_detour, fn_args, fn_result, objects, inbox>>

Next ==
    \/ \E transcript \in Transcripts : InstantTurn(transcript)
    \/ \E transcript \in Transcripts : BeginTurn(transcript)
    \/ GptNone
    \/ GptText
    \/ \E n \in 1..MaxDispatched : GptToolCalls(n)
    \/ \E context_name \in ContextNameArgs :
            DispatchSwitchContext(context_name)
    \/ \E command_name \in CommandNameArgs :
            DispatchExecuteCommand(command_name, FALSE)
    \/ \E employee_id \in EmployeeIds : DispatchSwitchTddEmployee(employee_id)
    \/ \E function_name \in TradeFunctionArgs :
         \E function_args \in FunctionArgs(function_name) :
           \E provider \in ProviderReturns :
                DispatchTrade(function_name, function_args, provider)
    \/ \E completion \in {TRUE} : Summarize(completion)

Spec == Init /\ [][Next]_vars

\* ------------------------------- the turns with the collaborators watched
\* The calls dispatched in these turns, over all of them.
MaxCollaboratorCalls == 2

\* The same turns with every route of execute_command and every trade
\* function, with a key module and a trading provider that may raise, and
\* with the switch to the trading persona only.
DispatchNext ==
    \/ \E transcript \in DispatchTranscripts : InstantTurn(transcript)
    \/ \E transcript \in DispatchTranscripts : BeginTurn(transcript)
    \/ GptText
    \/ \E n \in 1..MaxCollaboratorCalls :
            /\ dispatched + n <= MaxCollaboratorCalls
            /\ GptToolCalls(n)
    \/ \E context_name \in {AIContextValue("TDD")} :
            DispatchSwitchContext(context_name)
    \/ \E command_name \in DispatchCommandNameArgs :
         \E key_module_raises \in BOOLEAN :
            DispatchExecuteCommand(command_name, key_module_raises)
    \/ \E function_name \in DispatchFunctionArgs :
         \E function_args \in FunctionArgs(function_name) :
           \E provider \in ProviderOutcomes :
                DispatchTrade(function_name, function_args, provider)
    \/ \E completion \in {TRUE} : Summarize(completion)

DispatchSpec == Init /\ [][DispatchNext]_vars

\* ------------------------------------------------ the matcher by itself
\* The commands of the configurations the matcher is tried on: phrases that
\* match the transcripts fully, closely, at the threshold and not at all, and
\* a command with no phrases.
MatcherCommand(name, phrases) ==
    [name |-> name, instant_activation |-> phrases,
     responses |-> [kind |-> "list", list |-> <<"aye">>],
     sc_commands |-> <<>>, keys |-> <<"n">>]

MatcherCommands ==
    {MatcherCommand("LowerGear", <<"gear down">>),
     MatcherCommand("GearShout", <<"GEAR DOWN">>),
     MatcherCommand("GearDow", <<"gear dow">>),
     MatcherCommand("GearDwn", <<"landing gear", "gear dwn">>),
     MatcherCommand("GearD", <<"gear d">>),
     MatcherCommand("OpenDoors", <<>>)}

\* config["commands"]: every list of up to MaxCommands different commands.
CommandLists ==
    UNION {{q \in [1..n -> MatcherCommands] :
                \A i, j \in 1..n : i # j => q[i] # q[j]} : n \in 0..MaxCommands}

MatcherInit ==
    /\ Constructed
    /\ fn_args \in {[op |-> "match", transcript |-> t, commands |-> q] :
                        t \in MatcherTranscripts, q \in CommandLists}
    /\ fn_result = NotReturned

\* The two loops of _execute_instant_activation_command on the drawn
\* transcript and configuration.
ApplyMatcher ==
    LET m == Match(fn_args.transcript, fn_args.commands)
    IN /\ fn_args.op = "match"
       /\ ~fn_result.done
       /\ fn_result' = [done |-> TRUE, best_command |-> m.best_command,
                        best_ratio |-> m.best_ratio]
       /\ UNCHANGED <<turn_vars, fn_args, objects, inbox>>

MatcherNext == ApplyMatcher

MatcherSpec == MatcherInit /\ [][MatcherNext]_vars

\* ------------------------------------------------------------ properties
\* The messages of a sequence, as a set.
Range(seq) == {seq[i] : i \in 1..Len(seq)}

\* How often m occurs in seq.
Occurrences(m, seq) == Cardinality({i \in 1..Len(seq) : seq[i] = m})

\* The stored sequence of context c when c is not the current context of
\* session S (the sequence c will resume with), else the empty sequence.
StoredOf(S, c) ==
    IF c # S.current_context /\ c \in DOMAIN S.contexts_history
    THEN S.contexts_history[c].messages
    ELSE <<>>

\* Every conversation of session S: the active sequence, then the stored
\* sequences of the contexts that are not current.
Conversations(S) == S.messages \o StoredOf(S, "CORA") \o StoredOf(S, "TDD")

\* The last switch_context dispatch named a context that exists.
SwitchTarget == AIContextLookup(last_switch.context_name)
SwitchWasValid == last_switch.turn > 0 /\ SwitchTarget \in AIContext

\* ---------------------------------------- the history cleanup by itself
\* An active sequence of length len in context c: the system message, then
\* user and assistant messages in turn.
Conversation(c, len) ==
    [i \in 1..len |->
        IF i = 1 THEN SystemMsg(c)
        ELSE IF i % 2 = 0 THEN UserMsg(i \div 2)
        ELSE AssistantMsg(i \div 2, 0)]

\* self.messages and self.messages_buffer when the cleanup is called; the
\* size is unset (None) when size_set is false.
CleanupInit ==
    /\ Constructed
    /\ fn_args \in {[op |-> "cleanup", messages |-> Conversation(c, len),
                      size_set |-> set, size |-> IF set THEN R ELSE 0] :
                        c \in AIContext, len \in 1..MaxLen,
                        set \in BOOLEAN, R \in 0..MaxRetention}
    /\ fn_result = NotReturned

\* _cleanup_conversation_history on the drawn sequence and size.
ApplyCleanup ==
    LET cleaned == CleanupConversationHistory(fn_args.messages,
                       IF fn_args.size_set THEN <<fn_args.size>> ELSE <<>>)
    IN /\ fn_args.op = "cleanup"
       /\ ~fn_result.done
       /\ fn_result' = [done |-> TRUE, messages |-> cleaned.messages,
                        deleted_pairs |-> cleaned.deleted_pairs,
                        iterations |-> cleaned.iterations]
       /\ UNCHANGED <<turn_vars, fn_args, objects, inbox>>

CleanupNext == ApplyCleanup

CleanupSpec == CleanupInit /\ [][CleanupNext]_vars

\* The largest element of a non-empty set of numbers.
Maximum(S) == CHOOSE x \in S : \A y \in S : y <= x

\* The best ratio of a command's phrases to the transcript (0 with no phrase).
BestPhraseRatio(transcript, command) ==
    Maximum({0} \cup {Ratio(transcript, command.instant_activation[j]) :
                        j \in 1..Len(command.instant_activation)})

\* The matcher has returned for the drawn transcript and configuration.
Matched == fn_args.op = "match" /\ fn_result.done

\* C1 (as claimed): whenever a switch_context call is dispatched, at whatever
\* position of the tool-call list, the two messages taken off the old
\* persona's sequence are the user message of the current turn and the
\* assistant message that carries the call.
C1_DetachedIsTriggeringExchange ==
    (last_switch.turn > 0 /\ last_switch.detached # <<>>) =>
        last_switch.detached =
            <<UserMsg(last_switch.turn),
              AssistantMsg(last_switch.turn, last_switch.calls)>>

\* C2: after a switch from persona A to a different persona B with at least 3
\* active messages, the store entry of A is the old active sequence without
\* its last two messages, the active sequence is B's saved sequence (or B's
\* fresh system message) followed by those two messages in order, and every
\* message of the conversations before the switch occurs exactly once in the
\* conversations after it.
C2_SwitchSplicesExchange ==
    LET pre == last_switch.pre
        post == last_switch.post
        n == Len(pre.messages)
        A == pre.current_context
        B == SwitchTarget
        restored == IF B \in DOMAIN pre.contexts_history
                    THEN pre.contexts_history[B].messages
                    ELSE <<SystemMsg(B)>>
    IN (SwitchWasValid /\ B # A /\ n >= 3) =>
        /\ last_switch.raised = "none"
        /\ post.current_context = B
        /\ A \in DOMAIN post.contexts_history
        /\ post.contexts_history[A].messages = SubSeq(pre.messages, 1, n - 2)
        /\ post.messages = restored \o <<pre.messages[n - 1], pre.messages[n]>>
        /\ \A m \in Range(Conversations(pre)) :
                Occurrences(m, Conversations(post)) = 1

\* C2 witness: a switch back to a persona that was saved before, carrying
\* the last two messages of a longer sequence.
C2_Witness ==
    /\ SwitchWasValid
    /\ SwitchTarget # last_switch.pre.current_context
    /\ SwitchTarget \in DOMAIN last_switch.pre.contexts_history
    /\ Len(last_switch.pre.messages) >= 4
    /\ Len(last_switch.pre.contexts_history[SwitchTarget].messages) >= 2
    /\ last_switch.raised = "none"

\* C3 (as claimed): switching from A to B and later back to A makes the
\* active sequence A's sequence as it was before the detour (without the
\* exchange that triggered the switch away) followed only by the exchange that
\* triggered the switch back: the user message and the assistant message of
\* the current turn.
C3_RoundTripRestores ==
    (/\ SwitchWasValid
     /\ last_switch.raised = "none"
     /\ SwitchTarget # last_switch.pre.current_context
     /\ SwitchTarget \in DOMAIN before_detour) =>
        last_switch.post.messages =
            before_detour[SwitchTarget] \o
                <<UserMsg(last_switch.turn),
                  AssistantMsg(last_switch.turn, last_switch.calls)>>

\* C4 (as claimed): when _handle_tool_calls returns, the active sequence ends
\* with the assistant message of the turn followed by its n tool results in
\* call order, and no stored sequence of another persona holds a tool result
\* or the assistant message of the turn.
C4_ToolResultsFollowAssistant ==
    LET n == pending
        L == Len(messages)
    IN pc = "summarize" =>
        /\ L >= n + 1
        /\ messages[L - n] = AssistantMsg(turn, n)
        /\ \A k \in 1..n :
              /\ messages[L - n + k].role = "tool"
              /\ messages[L - n + k].turn = turn
              /\ messages[L - n + k].idx = k
        /\ \A c \in DOMAIN contexts_history \ {current_context} :
              \A m \in Range(contexts_history[c].messages) :
                  ~(m.turn = turn /\ m.role \in {"assistant", "tool"})

\* In seq every assistant message with tool calls is directly followed by its
\* tool results, in order, and every tool result follows its assistant
\* message.
WellPaired(seq) ==
    /\ \A i \in 1..Len(seq) :
          (seq[i].role = "assistant" /\ seq[i].calls > 0) =>
              \A k \in 1..seq[i].calls :
                  /\ i + k <= Len(seq)
                  /\ seq[i + k].role = "tool"
                  /\ seq[i + k].turn = seq[i].turn
                  /\ seq[i + k].idx = k
    /\ \A j \in 1..Len(seq) :
          seq[j].role = "tool" =>
              /\ j - seq[j].idx >= 1
              /\ seq[j - seq[j].idx].role = "assistant"
              /\ seq[j - seq[j].idx].turn = seq[j].turn
              /\ seq[j - seq[j].idx].calls >= seq[j].idx

\* C5 (as claimed): at every point where a new user message is appended, the
\* active sequence and every stored sequence are well paired.
C5_PairedWhenUserAppended ==
    pc = "gpt" =>
        /\ WellPaired(messages)
        /\ \A c \in DOMAIN contexts_history :
              WellPaired(contexts_history[c].messages)

\* C6 (as claimed): a switch_context with a context_name that is no value of
\* AIContext does not raise, leaves the whole session (persona, active
\* sequence, tools, retention size, side configuration, store) as it was, and
\* its result does not say that the switch happened.
C6_InvalidSwitchIgnored ==
    (last_switch.turn > 0 /\ SwitchTarget \notin AIContext) =>
        /\ last_switch.raised = "none"
        /\ last_switch.post = last_switch.pre
        /\ last_switch.function_response #
              SwitchedResponse(last_switch.context_name)

\* C7 (as claimed): a turn whose completion is None ends with a no-response
\* result and does not raise.
C7_NoCompletionNoRaise ==
    (pc = "idle" /\ turn_log.none_completion) => result.outcome # "raised"

\* C8 (as claimed): a switch_context executed with fewer than 3 active
\* messages detaches nothing, activates the target with only its own (fresh
\* or restored) messages and completes normally.
C8_ShortSequencePlainActivation ==
    LET pre == last_switch.pre
        post == last_switch.post
    IN (SwitchWasValid /\ Len(pre.messages) < 3) =>
        /\ last_switch.detached = <<>>
        /\ last_switch.raised = "none"
        /\ post.current_context = SwitchTarget
        /\ post.messages =
              IF SwitchTarget \in DOMAIN pre.contexts_history
              THEN pre.contexts_history[SwitchTarget].messages
              ELSE <<SystemMsg(SwitchTarget)>>

\* The matched command answers with one of its responses.
MatchedHasResponses ==
    /\ turn_log.matched # NoCommand
    /\ turn_log.matched.responses.kind = "list"
    /\ Len(turn_log.matched.responses.list) > 0

\* The responses setting of the matched command is False.
MatchedRespondsFalse ==
    turn_log.matched # NoCommand /\ turn_log.matched.responses.kind = "false"

\* C9 (as claimed): whenever the matcher selects a command, whatever its
\* responses setting, the turn makes no call to the LLM.
C9_MatchedNeverCallsLlm ==
    turn_log.matched # NoCommand => turn_log.llm_calls = 0

\* C9 (amended): a matched command whose responses setting is a non-empty
\* list or False ends the turn at once with no call to the LLM; a matched
\* command with an empty or missing list is executed and the turn goes on to
\* the LLM.
C9_MatchedWithAnswerNoLlm ==
    /\ (MatchedHasResponses \/ MatchedRespondsFalse) =>
          /\ turn_log.llm_calls = 0
          /\ pc = "idle"
          /\ result.outcome = "instant"
    /\ (turn_log.matched # NoCommand /\ ~MatchedHasResponses
            /\ ~MatchedRespondsFalse) =>
          turn_log.llm_calls >= 1

\* C9 witness: a turn ended on a matched command whose responses are False,
\* with an earlier conversation in the active sequence.
C9_Witness ==
    /\ MatchedRespondsFalse
    /\ pc = "idle"
    /\ result = [outcome |-> "instant", value |-> "Ok"]
    /\ Len(messages) > 1

\* A turn has ended on the instant path with a canned response.
InstantPathTurn ==
    pc = "idle" /\ result.outcome = "instant" /\ MatchedHasResponses

\* C10 (as claimed): a turn that ends on the instant path with a canned
\* response leaves the active sequence and the store as they were, for every
\* configured instant command.
C10_InstantPathChangesNothing ==
    InstantPathTurn =>
        /\ messages = turn_start.messages
        /\ contexts_history = turn_start.contexts_history

\* C10 (amended): such a turn leaves the store as it was, and the active
\* sequence as it was unless the command is the one named
\* ResetConversationHistory with no sc_commands, which leaves only the first
\* (system) message.
C10_InstantPathChangesOnlyOnReset ==
    InstantPathTurn =>
        /\ contexts_history = turn_start.contexts_history
        /\ messages =
              IF /\ turn_log.matched.name = "ResetConversationHistory"
                 /\ Len(turn_log.matched.sc_commands) = 0
              THEN <<turn_start.messages[1]>>
              ELSE turn_start.messages

\* C10 witness: an instant turn of another command, with a conversation in
\* the active sequence and a saved persona in the store.
C10_Witness ==
    /\ InstantPathTurn
    /\ turn_log.matched.name = "ToggleLandingGear"
    /\ Len(messages) > 1
    /\ DOMAIN contexts_history # {}

\* C11: the matcher never selects a command whose best phrase ratio to the
\* transcript is 0.8 or less, and selects nothing when every phrase ratio is
\* at most 0.8.
C11_NothingAtOrBelowThreshold ==
    Matched =>
        /\ fn_result.best_command # NoCommand =>
              BestPhraseRatio(fn_args.transcript, fn_result.best_command)
                  > Threshold
        /\ (\A i \in 1..Len(fn_args.commands) :
                BestPhraseRatio(fn_args.transcript, fn_args.commands[i])
                    <= Threshold)
              => fn_result.best_command = NoCommand

\* C11 witness: the best phrase of the configuration matches at exactly 0.8
\* and the matcher has selected nothing.
C11_Witness ==
    /\ Matched
    /\ fn_result.best_command = NoCommand
    /\ \E i \in 1..Len(fn_args.commands) :
          BestPhraseRatio(fn_args.transcript, fn_args.commands[i]) = Threshold

\* The positions of the commands with instant_activation phrases.
Eligible == {i \in 1..Len(fn_args.commands) :
                Len(fn_args.commands[i].instant_activation) > 0}

\* The largest best-phrase ratio over those commands.
BestRatioOverall ==
    Maximum({0} \cup {BestPhraseRatio(fn_args.transcript, fn_args.commands[i]) :
                        i \in Eligible})

\* The positions whose command reaches that ratio.
Winners == {i \in Eligible :
                BestPhraseRatio(fn_args.transcript, fn_args.commands[i])
                    = BestRatioOverall}

\* C12: when the largest best-phrase ratio over the commands with phrases
\* exceeds 0.8, the selected command is the first command in configuration
\* order that reaches it (so of two commands with equal ratio the earlier),
\* and a command without phrases is never selected.
C12_FirstOfTheBestWins ==
    Matched =>
        /\ BestRatioOverall > Threshold =>
              /\ fn_result.best_command =
                    fn_args.commands[CHOOSE i \in Winners :
                                        \A k \in Winners : i <= k]
              /\ fn_result.best_ratio = BestRatioOverall
        /\ fn_result.best_command # NoCommand =>
              Len(fn_result.best_command.instant_activation) > 0

\* C12 witness: two different commands tie at the largest ratio, above 0.8,
\* behind a command without phrases, and the matcher has returned.
C12_Witness ==
    /\ Matched
    /\ BestRatioOverall > Threshold
    /\ Cardinality(Winners) >= 2
    /\ Len(fn_args.commands) >= 3
    /\ Len(fn_args.commands[1].instant_activation) = 0

\* The cleanup has returned for the drawn sequence and size.
Cleaned == fn_args.op = "cleanup" /\ fn_result.done

\* C13: for any active sequence and any set retention size R, after the
\* cleanup the sequence has at most 2R+1 messages and its first message is
\* the one it was before.
C13_FitsAndKeepsFirst ==
    (Cleaned /\ fn_args.size_set) =>
        /\ Len(fn_result.messages) <= 2 * fn_args.size + 1
        /\ Len(fn_result.messages) >= 1
        /\ fn_result.messages[1] = fn_args.messages[1]

\* C13 witness: a sequence of even length, more than two messages over the
\* limit of a size above 0, has been cleaned up.
C13_Witness ==
    /\ Cleaned
    /\ fn_args.size_set
    /\ fn_args.size > 0
    /\ Len(fn_args.messages) % 2 = 0
    /\ Len(fn_args.messages) > 2 * fn_args.size + 3

\* The smallest number of pairs whose removal makes a sequence of length len
\* fit a limit of max_messages.
PairsToEvict(len, max_messages) ==
    CHOOSE k \in 0..len :
        /\ len - 2 * k <= max_messages
        /\ \A j \in 0..(k - 1) : len - 2 * j > max_messages

\* C14: the cleanup equals its reference: with the size unset the sequence is
\* unchanged; with R > 0 and length L > 2R+1 the result is the system message
\* followed by the last L-1-2k messages in their order, k being the smallest
\* number of pairs that makes the length at most 2R+1; with L <= 2R+1
\* nothing is removed.
C14_CleanupIsReference ==
    LET msgs == fn_args.messages
        L == Len(msgs)
        max_messages == 2 * fn_args.size + 1
        k == PairsToEvict(L, max_messages)
    IN Cleaned =>
        /\ ~fn_args.size_set => fn_result.messages = msgs
        /\ (fn_args.size_set /\ L <= max_messages) =>
              fn_result.messages = msgs
        /\ (fn_args.size_set /\ fn_args.size > 0 /\ L > max_messages) =>
              /\ fn_result.messages =
                    <<msgs[1]>> \o SubSeq(msgs, 2 + 2 * k, L)
              /\ Len(fn_result.messages) = L - 2 * k

\* C14 witness: more than one pair has been evicted for a size above 0.
C14_Witness ==
    /\ Cleaned
    /\ fn_args.size_set
    /\ fn_args.size > 0
    /\ Len(fn_args.messages) - Len(fn_result.messages) >= 4

\* C15: with retention size 0 and a sequence longer than 1, the cleanup
\* removes every message after the system message in one run of the loop
\* body, and the eviction count is (length - 1) div 2 of the sequence before
\* the reset.
C15_SizeZeroDropsAllAtOnce ==
    (Cleaned /\ fn_args.size_set /\ fn_args.size = 0
        /\ Len(fn_args.messages) > 1) =>
        /\ fn_result.messages = <<fn_args.messages[1]>>
        /\ fn_result.iterations = 1
        /\ fn_result.deleted_pairs = (Len(fn_args.messages) - 1) \div 2

\* C15 witness: a sequence of several pairs has been cleaned up with size 0.
C15_Witness ==
    /\ Cleaned
    /\ fn_args.size_set
    /\ fn_args.size = 0
    /\ Len(fn_args.messages) >= 5
    /\ fn_result.deleted_pairs >= 2

\* In seq, kept for persona c, the first message is the system message of c
\* and no message is a system message of another persona.
OwnSystemPromptOnly(seq, c) ==
    /\ Len(seq) >= 1
    /\ seq[1] = SystemMsg(c)
    /\ \A i \in 1..Len(seq) :
          seq[i].role = "system" => seq[i] = SystemMsg(c)

\* C16: in every reachable state the active sequence starts with the system
\* message of the current persona, every stored sequence starts with the
\* system message of the persona it is stored under, and no sequence holds
\* the system prompt of another persona; so after a switch from CORA to TDD
\* the active sequence does not hold CORA's system prompt.
C16_SystemPromptOfOwnPersona ==
    /\ OwnSystemPromptOnly(messages, current_context)
    /\ \A c \in DOMAIN contexts_history :
          OwnSystemPromptOnly(contexts_history[c].messages, c)

\* C16 witness: a switch from CORA to TDD has carried the exchange over, and
\* CORA's sequence is in the store.
C16_Witness ==
    /\ SwitchWasValid
    /\ last_switch.raised = "none"
    /\ last_switch.pre.current_context = "CORA"
    /\ current_context = "TDD"
    /\ Len(messages) >= 3
    /\ "CORA" \in DOMAIN contexts_history

\* C20: in every reachable state the active retention size is the static
\* value of the current persona (10 for CORA, 20 for TDD), also after a
\* switch back to a persona saved before.
C20_RetentionSizeOfPersona ==
    messages_buffer = IF current_context = "CORA" THEN 10 ELSE 20

\* C20 witness: a switch from TDD back to CORA, restored from the store.
C20_Witness ==
    /\ SwitchWasValid
    /\ last_switch.raised = "none"
    /\ last_switch.turn = turn
    /\ last_switch.pre.current_context = "TDD"
    /\ "CORA" \in DOMAIN last_switch.pre.contexts_history
    /\ current_context = "CORA"

\* A switch_context call was dispatched in the turn that has just ended.
TurnEndedAfterSwitch ==
    pc = "idle" /\ turn > 0 /\ last_switch.turn = turn

\* C17 (as claimed): if a switch_context call was dispatched in a turn, then
\* before the turn ends the LLM is called again, with the active messages and
\* the tools of the persona then current, and the turn's result is that
\* call's completion (when there is one), never the switch directive.
C17_SwitchReinvokesLlm ==
    TurnEndedAfterSwitch =>
        /\ turn_log.llm_calls >= 2
        /\ result.outcome = "summary"
        /\ turn_log.gpt_call.context = current_context
        /\ turn_log.gpt_call.tools = GetContextTools(current_context)
        /\ turn_log.gpt_call.messages[1] = SystemMsg(current_context)
        /\ result.value # SwitchedResponse(last_switch.context_name)

\* The calls of the turn that had a response played: execute_command calls
\* for a configured command with a non-empty responses list whose drawn
\* response is neither empty nor "Ok".
CannedCalls ==
    {k \in 1..Len(turn_log.calls) :
        /\ turn_log.calls[k].function_name = "execute_command"
        /\ \E i \in 1..Len(Commands) :
              /\ Commands[i].name = turn_log.calls[k].argument
              /\ Commands[i].responses.kind = "list"
              /\ Len(Commands[i].responses.list) > 0
        /\ turn_log.calls[k].instant_response \notin {"", "Ok"}}

Produced ==
    SelectSeq([k \in 1..Len(turn_log.calls) |->
                  turn_log.calls[k].instant_response], Truthy)

\* C19 (as claimed): the value _handle_tool_calls returns is the last instant
\* response any of the calls produced; a later call that produces none does
\* not erase it.
C19_ReturnsLastProduced ==
    (pc = "summarize" /\ Len(Produced) > 0) =>
        turn_log.instant_response = Produced[Len(Produced)]

\* C21: right after every switch_context dispatch that activates a persona,
\* the configured voice, the three audio-effect toggles and the conversation
\* model are that persona's: for CORA the cora voice, beep off, radio effect
\* off, robot effect on and the CORA model; for TDD the voice of the current
\* TDD employee, beep on, radio effect on, robot effect off and the TDD model.
C21_SideConfigurationOfPersona ==
    LET post == last_switch.post
    IN SwitchWasValid =>
        /\ post.current_context = SwitchTarget
        /\ post.config =
              IF post.current_context = "CORA"
              THEN [tts_voice |-> "nova", play_beep_on_receiving |-> FALSE,
                    enable_radio_sound_effect |-> FALSE,
                    enable_robot_sound_effect |-> TRUE,
                    conversation_model |-> "cora_model"]
              ELSE [tts_voice |-> post.tdd_voice,
                    play_beep_on_receiving |-> TRUE,
                    enable_radio_sound_effect |-> TRUE,
                    enable_robot_sound_effect |-> FALSE,
                    conversation_model |-> "tdd_model"]

\* C21 witness: TDD has been activated after the TDD employee was changed.
C21_Witness ==
    /\ SwitchWasValid
    /\ last_switch.post.current_context = "TDD"
    /\ last_switch.post.tdd_voice = "echo"

\* The step is the dispatch of a switch_context call.
SwitchContextStep ==
    /\ pc = "tools"
    /\ last_switch'.turn = turn
    /\ last_switch'.position = next_call
    /\ last_switch'.pre = Session

\* C23: the context store changes only inside a switch_context dispatch, and
\* that dispatch only creates or overwrites the entry of the persona being
\* left; every other operation leaves the store unchanged and no entry is
\* ever removed.
C23_StoreChangesOnlyOnSwitch ==
    [][\/ contexts_history' = contexts_history
       \/ /\ SwitchContextStep
          /\ DOMAIN contexts_history' =
                DOMAIN contexts_history \cup {current_context}
          /\ \A c \in DOMAIN contexts_history \ {current_context} :
                contexts_history'[c] = contexts_history[c]]_vars

\* C23 witness: a switch has overwritten the entry of the persona it left,
\* next to the entry of the other persona.
C23_Witness ==
    LET pre == last_switch.pre
    IN /\ SwitchWasValid
       /\ DOMAIN pre.contexts_history = {"CORA", "TDD"}
       /\ contexts_history[pre.current_context] #
              pre.contexts_history[pre.current_context]
       /\ last_switch.post.contexts_history = contexts_history

\* The step is the dispatch of a switch_tdd_employee call.
SwitchTddEmployeeStep ==
    /\ pc = "tools"
    /\ Len(turn_log'.calls) = Len(turn_log.calls) + 1
    /\ turn_log'.calls[Len(turn_log'.calls)].function_name =
          "switch_tdd_employee"

\* C24: dispatching switch_tdd_employee changes only the TDD employee voice
\* and the configured tts voice; the current persona, the active sequence
\* (but for the tool result the loop appends), the tools, the retention size
\* and the store are unchanged, the tool result is a success payload and there
\* is no immediate-playback value.
C24_EmployeeSwitchIsLocal ==
    [][SwitchTddEmployeeStep =>
        LET employee_id == turn_log'.calls[Len(turn_log'.calls)].argument
        IN /\ tdd_voice' = employee_id
           /\ config' = [config EXCEPT !.tts_voice = employee_id]
           /\ current_context' = current_context
           /\ current_tools' = current_tools
           /\ messages_buffer' = messages_buffer
           /\ contexts_history' = contexts_history
           /\ Len(messages') = Len(messages) + 1
           /\ SubSeq(messages', 1, Len(messages)) = messages
           /\ messages'[Len(messages')].role = "tool"
           /\ messages'[Len(messages')].name = "switch_tdd_employee"
           /\ messages'[Len(messages')].content = "{\"success\": \"True\"}"
           /\ turn_log'.instant_response = NoneValue
           /\ turn_log'.played = turn_log.played]_vars

\* C24 witness: the employee was switched while CORA is the current persona
\* and TDD is in the store.
C24_Witness ==
    /\ Len(turn_log.calls) > 0
    /\ turn_log.calls[Len(turn_log.calls)].function_name =
          "switch_tdd_employee"
    /\ current_context = "CORA"
    /\ "TDD" \in DOMAIN contexts_history
    /\ tdd_voice = "echo"
    /\ config.tts_voice = "echo"

\* The call whose dispatch the step ends, and what the step asked of the
\* collaborators.
CallReturned == turn_log'.calls[Len(turn_log'.calls)]
NewEvents ==
    SubSeq(turn_log'.events, Len(turn_log.events) + 1, Len(turn_log'.events))

\* The step is a dispatch from which the dispatcher returned.
DispatchReturnsStep ==
    /\ pc = "tools"
    /\ Len(turn_log'.calls) = Len(turn_log.calls) + 1

\* The names of the configured commands.
ConfiguredNames == {Commands[i].name : i \in 1..Len(Commands)}

\* C25: dispatching execute_command with a name that is neither a configured
\* command nor a known keybinding emits no key event, and the tool result is
\* the failure payload with success false and an error that names the command.
C25_UnknownCommandFailsWithoutKeys ==
    [][(/\ DispatchReturnsStep
        /\ CallReturned.function_name = "execute_command"
        /\ CallReturned.argument \notin ConfiguredNames \cup KeybindingNames)
        => /\ NewEvents = <<>>
           /\ messages' =
                Append(messages,
                       ToolMsg(turn, next_call, "execute_command",
                               "{\"success\": false, \"error\": \"Command not found "
                                   \o CallReturned.argument \o "\"}"))]_vars

\* C25 witness: after a configured command whose key was pressed, a name
\* nobody knows was dispatched and answered.
C25_Witness ==
    /\ Len(turn_log.calls) = 2
    /\ turn_log.calls[1].argument = "OpenDoors"
    /\ turn_log.calls[2].function_name = "execute_command"
    /\ turn_log.calls[2].argument = "FlyToTheMoon"
    /\ turn_log.events = <<KeyEvent("k", FALSE)>>
    /\ messages[Len(messages)].role = "tool"
    /\ messages[Len(messages)].content =
          "{\"success\": false, \"error\": \"Command not found FlyToTheMoon\"}"

\* A collaborator raised in the step, which is a dispatch.
CollaboratorRaisesStep ==
    /\ pc = "tools"
    /\ \E i \in 1..Len(NewEvents) : NewEvents[i].raised

\* C27 (as claimed): when the key module or the trading provider raises
\* during the dispatch of a tool call, the exception does not leave the
\* dispatcher: the call has a structured failure payload as its tool result
\* and the turn goes on.
C27_CollaboratorFailureContained ==
    [][CollaboratorRaisesStep
        => /\ pc' \in {"tools", "summarize"}
           /\ result' = result
           /\ Len(messages') = Len(messages) + 1
           /\ messages'[Len(messages')].role = "tool"
           /\ messages'[Len(messages')].content = KeymappingFailure]_vars

\* The provider method that matches each trade function, and the names it is
\* to be called with.
MatchingQuery(function_name, given) ==
    CASE function_name = "find_best_trade_route_from_location" ->
            [query |-> "find_best_trade_from_location",
             args |-> [location_name |-> given.location_name]]
      [] function_name = "find_best_trade_route_between_locations" ->
            [query |-> "find_best_trade_between_locations",
             args |-> [location_name1 |-> given.location_name_from,
                       location_name2 |-> given.location_name_to]]
      [] function_name = "find_best_sell_price_for_commodity_at_location" ->
            [query |-> "find_best_sell_price_at_location",
             args |-> [location_name |-> given.location_name_to,
                       commodity_name |-> given.commodity_name]]
      [] function_name = "find_best_trade_route_for_commodity" ->
            [query |-> "find_best_trade_for_commodity",
             args |-> [commodity_name |-> given.commodity_name]]
      [] function_name = "find_best_selling_location_for_commodity" ->
            [query |-> "find_best_selling_location_for_commodity",
             args |-> [commodity_name |-> given.commodity_name]]

\* C29: a dispatch of one of the five trade functions that returns has called
\* the matching provider method exactly once with the names given, its tool
\* result is the JSON serialisation of what the provider returned, it has no
\* immediate-playback value and plays nothing, and the current persona and
\* the store are unchanged; a function name outside the routing calls no
\* collaborator and has the empty tool result.
C29_TradeRoutesToProvider ==
    [][(/\ DispatchReturnsStep
        /\ CallReturned.function_name \in DispatchFunctionArgs)
        => LET function_name == CallReturned.function_name
               given == CHOOSE a \in FunctionArgs(function_name) : TRUE
           IN /\ current_context' = current_context
              /\ contexts_history' = contexts_history
              /\ ~Truthy(CallReturned.instant_response)
              /\ turn_log'.played = turn_log.played
              /\ IF function_name \in TradeFunctions
                 THEN /\ Len(NewEvents) = 1
                      /\ NewEvents[1].collaborator = "uex_service"
                      /\ NewEvents[1].query =
                            MatchingQuery(function_name, given).query
                      /\ NewEvents[1].args =
                            MatchingQuery(function_name, given).args
                      /\ messages' =
                            Append(messages,
                                   ToolMsg(turn, next_call, function_name,
                                           JsonDumps(NewEvents[1].returned)))
                 ELSE /\ NewEvents = <<>>
                      /\ messages' =
                            Append(messages,
                                   ToolMsg(turn, next_call, function_name,
                                           ""))]_vars

\* C29 witness: in the trading persona, with CORA in the store, the route
\* between two locations was asked for and the provider found none.
C29_Witness ==
    /\ current_context = "TDD"
    /\ "CORA" \in DOMAIN contexts_history
    /\ Len(turn_log.calls) > 0
    /\ turn_log.calls[Len(turn_log.calls)].function_name =
          "find_best_trade_route_between_locations"
    /\ turn_log.events[Len(turn_log.events)].args =
          [location_name1 |-> "Lorville", location_name2 |-> "Area18"]
    /\ messages[Len(messages)].role = "tool"
    /\ messages[Len(messages)].content =
          "{\"success\": false, \"message\": \"no route\"}"

\* The key presses that execute a command once.
PressedOnce(command) ==
    LET pressed == IF Len(command.sc_commands) > 0 THEN command.sc_commands
                   ELSE command.keys
    IN [i \in 1..Len(pressed) |-> KeyEvent(pressed[i], FALSE)]

RequestTypes ==
    {"find_best_trade_route_starting_at_location",
     "find_best_trade_route_between",
     "find_tradeport_at_location_to_sell_commodity",
     "find_best_trade_route_for_commodity_between_locations",
     "find_best_sell_price_for_commodity"}

\* The locations and commodities the trading provider knows.
KnownLocations == {"Lorville", "Area18"}
KnownCommodities == {"Gold"}

\* The names the model may give: one that resolves, one that does not, and
\* none at all (function_args.get(..., None)).
LocationFromArgs == {"Lorville", "Lorvil", NoneValue}
LocationToArgs == {"Area18", "Aria", NoneValue}
CommodityArgs == {"Gold", "Gould", NoneValue}

\* uex_service.get_location(name) and get_commodity(name): the entry found,
\* or nothing.
GetLocation(name) ==
    IF name \in KnownLocations THEN <<[code |-> "code of " \o name]>> ELSE <<>>
GetCommodity(name) ==
    IF name \in KnownCommodities THEN <<[code |-> "code of " \o name]>>
    ELSE <<>>

\* A name as an f-string prints it.
Formatted(name) == IF name = NoneValue THEN "None" ELSE name

\* The two forms a return value has: a dict, and the str json.dumps makes of
\* the provider's response.
Dict(instructions) ==
    [type |-> "dict",
     payload |-> [success |-> FALSE, instructions |-> instructions]]
Serialized(function_response) ==
    [type |-> "str", payload |-> function_response,
     text |-> JsonDumps(function_response)]

\* A route query of the trading provider, by codes.
RouteQuery(query, args) == [query |-> query, args |-> args]

\* get_trade_information_from_tdd_employee(function_args), with
\* route_response what the provider's route query answers: the value
\* returned and the route queries made.
GetTradeInformationFromTddEmployee(function_args, route_response) ==
    LET request_type == function_args.request_type
        location_from == GetLocation(function_args.location_name_from)
        location_to == GetLocation(function_args.location_name_to)
        commodity == GetCommodity(function_args.commodity_name)
        Failed(instructions) ==
            [returned |-> Dict(instructions), queries |-> <<>>]
        Queried(query, args) ==
            [returned |-> Serialized(route_response),
             queries |-> <<RouteQuery(query, args)>>]
    IN CASE request_type = "find_best_trade_route_starting_at_location" ->
              IF location_from = <<>>
              THEN Failed("Missing starting location")
              ELSE Queried("find_best_trade_from_location_code",
                           [location_code |-> location_from[1].code])
         [] request_type = "find_best_trade_route_between" ->
              IF location_from = <<>>
              THEN Failed("Start location not recognised: "
                            \o Formatted(function_args.location_name_from))
              ELSE IF location_to = <<>>
              THEN Failed("Target location not recognised: "
                            \o Formatted(function_args.location_name_to))
              ELSE Queried("find_best_trade_between_locations_code",
                           [location_code1 |-> location_from[1].code,
                            location_code2 |-> location_to[1].code])
         [] request_type = "find_tradeport_at_location_to_sell_commodity" ->
              IF location_to = <<>>
              THEN Failed("The location "
                            \o Formatted(function_args.location_name_to)
                            \o " could not be found. User should try again speaking clearly. ")
              ELSE IF commodity = <<>>
              THEN Failed("The commodity "
                            \o Formatted(function_args.commodity_name)
                            \o " could not be identified. Ask the user to repeat the name clearly. ")
              ELSE Queried("find_best_sell_price_at_location_codes",
                           [location_code |-> location_to[1].code,
                            commodity_code |-> commodity[1].code])
         [] request_type =
                "find_best_trade_route_for_commodity_between_locations" ->
              IF commodity = <<>>
              THEN Failed("Ask the player for the commodity that he wants to trade.")
              ELSE Queried("find_best_trade_for_commodity_code",
                           [commodity_code |-> commodity[1].code])
         [] request_type = "find_best_sell_price_for_commodity" ->
              IF commodity = <<>>
              THEN Failed("Ask the player the commodity that he wants to sell.")
              ELSE Queried("find_best_selling_location_for_commodity_code",
                           [commodity_code |-> commodity[1].code])
         [] OTHER -> [returned |-> [type |-> "none"], queries |-> <<>>]

\* The inquiries tried: every request type and one the method does not test
\* for, with each combination of names, and a provider that finds a route or
\* does not.
TddInit ==
    /\ Constructed
    /\ fn_args \in
          {[op |-> "trade_information",
            function_args |-> [request_type |-> t, location_name_from |-> f,
                               location_name_to |-> l, commodity_name |-> c],
            route_response |-> r] :
                t \in RequestTypes \cup {"find_cheapest_fuel"},
                f \in LocationFromArgs, l \in LocationToArgs,
                c \in CommodityArgs, r \in ProviderResults}
    /\ fn_result = NotReturned

ApplyTradeInformation ==
    LET r == GetTradeInformationFromTddEmployee(fn_args.function_args,
                                                fn_args.route_response)
    IN /\ fn_args.op = "trade_information"
       /\ ~fn_result.done
       /\ fn_result' = [done |-> TRUE, returned |-> r.returned,
                        queries |-> r.queries]
       /\ UNCHANGED <<turn_vars, fn_args, objects, inbox>>

TddNext == ApplyTradeInformation

TddSpec == TddInit /\ [][TddNext]_vars

\* The names each request type requires.
RequiredNames(request_type) ==
    CASE request_type = "find_best_trade_route_starting_at_location" ->
            {"location_name_from"}
      [] request_type = "find_best_trade_route_between" ->
            {"location_name_from", "location_name_to"}
      [] request_type = "find_tradeport_at_location_to_sell_commodity" ->
            {"location_name_to", "commodity_name"}
      [] request_type =
            "find_best_trade_route_for_commodity_between_locations" ->
            {"commodity_name"}
      [] request_type = "find_best_sell_price_for_commodity" ->
            {"commodity_name"}

\* The name given under a parameter resolves.
Resolves(parameter, function_args) ==
    IF parameter = "commodity_name"
    THEN function_args.commodity_name \in KnownCommodities
    ELSE function_args[parameter] \in KnownLocations

\* The inquiry returned and a name its request type requires did not resolve.
UnresolvedInquiry ==
    /\ fn_args.op = "trade_information"
    /\ fn_result.done
    /\ fn_args.function_args.request_type \in RequestTypes
    /\ \E parameter \in RequiredNames(fn_args.function_args.request_type) :
            ~Resolves(parameter, fn_args.function_args)

\* C26 (as claimed): for each of the five request types, when a required
\* location or commodity does not resolve, no route query is made and the
\* result is a failure payload (success false, with an instruction) in the
\* form successful results have: the serialised structure.
C26_UnresolvedNamesFailInResultForm ==
    UnresolvedInquiry =>
        /\ fn_result.queries = <<>>
        /\ fn_result.returned.type = "str"
        /\ fn_result.returned.payload.success = FALSE

\* ------------------------------------ the store and the list objects
\* The list objects there may be, and the longest list appended to.
MaxObjects == 5
MaxListLen == 4

\* The list self.messages refers to, and the list a store entry refers to.
ActiveList(O) == O.lists[O.messages]
StoredList(O, c) == O.lists[O.contexts_history[c]]

\* list.copy(): a new list object with the same messages; it is the last of
\* lists afterwards.
ListCopy(O, id) == [O EXCEPT !.lists = Append(@, O.lists[id])]

\* A list display: a new list object.
NewList(O, list) == [O EXCEPT !.lists = Append(@, list)]

\* _save_current_context: the entry of the current context refers to a copy
\* of self.messages.
SaveCurrentContextOf(O) ==
    LET copied == ListCopy(O, O.messages)
    IN [copied EXCEPT !.contexts_history =
            [c \in DOMAIN O.contexts_history \cup {O.current_context} |->
                IF c = O.current_context THEN Len(copied.lists)
                ELSE O.contexts_history[c]]]

\* A slip in the restore: self.messages is the stored list itself.
SetCurrentContextOfAliases(O, new_context, new) ==
    IF new
    THEN LET made == NewList(O, <<SystemMsg(new_context)>>)
         IN [made EXCEPT !.messages = Len(made.lists),
                         !.current_context = new_context]
    ELSE [O EXCEPT !.messages = O.contexts_history[new_context],
                   !.current_context = new_context]

\* _set_current_context: self.messages becomes a new one-message list, or a
\* copy of the list the entry of the new context refers to.
SetCurrentContextOf(O, new_context, new) ==
    IF new
    THEN LET made == NewList(O, <<SystemMsg(new_context)>>)
         IN [made EXCEPT !.messages = Len(made.lists),
                         !.current_context = new_context]
    ELSE LET copied == ListCopy(O, O.contexts_history[new_context])
         IN [copied EXCEPT !.messages = Len(copied.lists),
                           !.current_context = new_context]

\* _switch_context to an existing context: save, then set, new when the
\* store had no entry for it.
SwitchContextOf(O, new_context) ==
    SetCurrentContextOf(SaveCurrentContextOf(O), new_context,
                        new_context \notin DOMAIN O.contexts_history)

\* self.messages.append(msg), del self.messages[1:3] and
\* del self.messages[-2:]: the list object itself is changed.
AppendTo(O, msg) == [O EXCEPT !.lists[O.messages] = Append(@, msg)]
DeleteOldestPair(O) ==
    [O EXCEPT !.lists[O.messages] = <<@[1]>> \o SubSeq(@, 4, Len(@))]
DeleteLastTwo(O) ==
    [O EXCEPT !.lists[O.messages] = SubSeq(@, 1, Len(@) - 2)]

\* A message is appended to the active sequence.
AppendsMessage ==
    /\ Len(ActiveList(objects)) < MaxListLen
    /\ objects' = AppendTo(objects, UserMsg(Len(ActiveList(objects))))
    /\ UNCHANGED <<turn_vars, fn_args, fn_result, inbox>>

\* The history cleanup trims the active sequence.
TrimsMessages ==
    /\ Len(ActiveList(objects)) >= 3
    /\ objects' = DeleteOldestPair(objects)
    /\ UNCHANGED <<turn_vars, fn_args, fn_result, inbox>>

\* The triggering exchange is detached from the active sequence.
DetachesMessages ==
    /\ Len(ActiveList(objects)) >= 3
    /\ objects' = DeleteLastTwo(objects)
    /\ UNCHANGED <<turn_vars, fn_args, fn_result, inbox>>

\* The persona is switched.
SwitchesContext(new_context) ==
    /\ new_context # objects.current_context
    /\ Len(objects.lists) + 2 <= MaxObjects
    /\ objects' = SwitchContextOf(objects, new_context)
    /\ UNCHANGED <<turn_vars, fn_args, fn_result, inbox>>

ObjectNext ==
    \/ AppendsMessage
    \/ TrimsMessages
    \/ DetachesMessages
    \/ \E new_context \in AIContext : SwitchesContext(new_context)

ObjectSpec == Init /\ [][ObjectNext]_vars

\* C22: the store holds copies, not aliases: a step that appends to, trims
\* or detaches from the active sequence (any step that is not a switch)
\* leaves the message sequence of every store entry as it was, after a save
\* and after a restore.
C22_StoreHoldsCopies ==
    [][objects'.contexts_history = objects.contexts_history
        => \A c \in DOMAIN objects.contexts_history :
                StoredList(objects', c) = StoredList(objects, c)]_vars

\* C22 witness: CORA was left and resumed, both personas are in the store,
\* and the active sequence has been appended to since it was restored while
\* the entry of TDD holds what was appended there.
C22_Witness ==
    /\ objects.current_context = "CORA"
    /\ DOMAIN objects.contexts_history = {"CORA", "TDD"}
    /\ Len(ActiveList(objects)) > Len(StoredList(objects, "CORA"))
    /\ Len(StoredList(objects, "CORA")) > 1
    /\ Len(StoredList(objects, "TDD")) > 1

\* ------------------------------------------- the arrival of transcripts
\* The transcripts that arrive, and how many.
ArrivalTranscripts == {"landing gear", "best trade from lorville"}
MaxArrivals == 2

\* A transcript arrives, whatever the turn in progress is doing; it waits in
\* the inbox.
TranscriptArrives(transcript) ==
    /\ Len(inbox) < MaxArrivals
    /\ inbox' = Append(inbox, [transcript |-> transcript, turn |-> turn,
                               pc |-> pc])
    /\ UNCHANGED <<turn_vars, fn_args, fn_result, objects>>

\* The oldest transcript no turn has been started for.
Waiting == Len(inbox) > turn
NextTranscript == inbox[turn + 1].transcript

\* The turns of the transcripts that arrive, each taken from the inbox, with
\* a command whose response is played and the switch to the trading persona.
ArrivalNext ==
    \/ \E transcript \in ArrivalTranscripts : TranscriptArrives(transcript)
    \/ Waiting /\ InstantTurn(NextTranscript)
    \/ Waiting /\ BeginTurn(NextTranscript)
    \/ GptText
    \/ \E n \in 1..MaxArrivals : GptToolCalls(n)
    \/ \E context_name \in {AIContextValue("TDD")} :
            DispatchSwitchContext(context_name)
    \/ \E command_name \in {"OpenDoors"} :
            DispatchExecuteCommand(command_name, FALSE)
    \/ \E completion \in {TRUE} : Summarize(completion)

ArrivalSpec == Init /\ [][ArrivalNext]_vars

\* No message of another turn stands between an assistant message with tool
\* calls and a tool result of its turn.
ToolResultsUnbroken(seq) ==
    \A i, k \in 1..Len(seq) :
        (/\ i < k
         /\ seq[i].role = "assistant" /\ seq[i].calls > 0
         /\ seq[k].role = "tool" /\ seq[k].turn = seq[i].turn)
        => \A j \in i..k : seq[j].turn = seq[i].turn

SwitchToCurrent ==
    /\ SwitchWasValid
    /\ SwitchTarget = last_switch.pre.current_context

\* C31 (as claimed): a switch_context whose target is the persona that is
\* already current keeps that persona's history: the active sequence after
\* the call equals the sequence before it, also when the persona has never
\* been saved to the store.
C31_SwitchToCurrentKeepsHistory ==
    SwitchToCurrent =>
        /\ last_switch.raised = "none"
        /\ last_switch.post.messages = last_switch.pre.messages

\* --------------------------------------- the turns that run to their end
\* The transcripts of these turns: one that ends on the instant path and one
\* that goes on to the LLM.
TerminationTranscripts == {"afterburner on", "best trade from lorville"}

\* A step of the turn in progress: _get_response_for_transcript goes on when
\* the LLM, the key module or a dispatched function returns.
TurnStep ==
    \/ GptNone
    \/ GptText
    \/ \E n \in 1..MaxDispatched : GptToolCalls(n)
    \/ \E context_name \in ContextNameArgs :
            DispatchSwitchContext(context_name)
    \/ \E command_name \in {"OpenDoors"} :
            DispatchExecuteCommand(command_name, FALSE)
    \/ \E completion \in BOOLEAN : Summarize(completion)

TerminationNext ==
    \/ \E transcript \in TerminationTranscripts : InstantTurn(transcript)
    \/ \E transcript \in TerminationTranscripts : BeginTurn(transcript)
    \/ TurnStep

\* A turn that has started goes on whenever it can: its collaborators return.
\* Nothing makes a new turn start.
TerminationSpec == Init /\ [][TerminationNext]_vars /\ WF_vars(TurnStep)

\* The switch_context calls that have returned in the turn in progress.
SwitchesInTurn ==
    Cardinality({i \in 1..Len(turn_log.calls) :
                    turn_log.calls[i].function_name = "switch_context"})

\* The assistant messages of turn t that carry tool calls, in any
\* conversation of the session.
AssistantWithCalls(t) ==
    {m \in Range(messages) \cup
           UNION {Range(contexts_history[c].messages) :
                    c \in DOMAIN contexts_history} :
        m.role = "assistant" /\ m.turn = t /\ m.calls > 0}

\* C32: every turn terminates when the collaborators return.  The tool calls
\* of at most one assistant message are dispatched per turn; a tool result
\* never starts another dispatch round (the LLM is asked for tool calls only
\* when a turn starts, and the dispatch goes on to the summary or ends the
\* turn); so the switches of a turn are at most the tool calls of that one
\* assistant message, however many switches the model requests.
C32_TurnTerminates ==
    /\ [](/\ Cardinality(AssistantWithCalls(turn)) <= 1
          /\ pc \in {"tools", "summarize"} =>
                /\ Len(turn_log.calls) < next_call
                /\ next_call <= pending + 1
                /\ SwitchesInTurn <= pending)
    /\ [][/\ pc' = "gpt" => (pc = "idle" /\ turn' = turn + 1)
          /\ pc' = "tools" => pc \in {"gpt", "tools"}
          /\ pc = "summarize" => pc' = "idle"]_vars
    /\ (pc # "idle") ~> (pc = "idle")

\* C32 witness: a turn has ended after the model requested nothing but
\* switches, as many as one assistant message carries here.
C32_Witness ==
    /\ pc = "idle"
    /\ result.outcome = "summary"
    /\ pending = MaxDispatched
    /\ SwitchesInTurn = pending
    /\ Len(turn_log.calls) = pending

\* ------------------------------------------- the histories the turns leave
\* Turns processed in one behaviour when each turn is one step.
MaxHistoryTurns == 7

\* How a turn may go: the LLM call fails, the completion is plain text, the
\* completion carries one execute_command call, or it carries one
\* switch_context call to the other persona.
TurnShapes == {"failed", "text", "command", "switch"}

\* The other persona.
OtherContext(c) == CHOOSE d \in AIContext : d # c

\* _get_response_for_transcript as one step, for a transcript that matches no
\* instant command: the history is cleaned up and the user message added,
\* then the completion's message is appended (none when the LLM call fails,
\* and the turn raises), its tool call is dispatched, the tool result is
\* appended and the summary follows.
WholeTurn(shape) ==
    LET t == turn + 1
        cleaned == CleanupConversationHistory(messages, <<messages_buffer>>)
        asked == AddUserMessage(messages, messages_buffer, t)
        called == [Session EXCEPT !.messages =
                        Append(asked, AssistantMsg(t, 1))]
        switched == ExecuteSwitchContextFunction(called,
                        AIContextValue(OtherContext(current_context)))
        done == ExecuteStarCitizenCommandOverwrite(called.messages,
                        GetCommand("OpenDoors"), FALSE)
    IN /\ pc = "idle"
       /\ turn < MaxHistoryTurns
       /\ turn' = t
       /\ current_user_request' = "best trade from lorville"
       /\ fn_args' = [op |-> "turn", shape |-> shape,
                      size |-> messages_buffer]
       /\ fn_result' = [done |-> TRUE, messages |-> cleaned.messages,
                        deleted_pairs |-> cleaned.deleted_pairs,
                        iterations |-> cleaned.iterations]
       /\ CASE shape = "failed" ->
                 /\ SessionBecomes([Session EXCEPT !.messages = asked])
                 /\ result' = [outcome |-> "raised",
                               value |-> "AttributeError"]
            [] shape = "text" ->
                 /\ SessionBecomes([Session EXCEPT !.messages =
                        Append(asked, AssistantMsg(t, 0))])
                 /\ result' = [outcome |-> "text", value |-> "completion"]
            [] shape = "command" ->
                 /\ \E function_response \in done.responses :
                      SessionBecomes([called EXCEPT !.messages =
                        done.messages \o
                            <<ToolMsg(t, 1, "execute_command",
                                      function_response),
                              SummaryMsg(t)>>])
                 /\ result' = [outcome |-> "summary", value |-> "summary"]
            [] shape = "switch" ->
                 /\ SessionBecomes([switched.session EXCEPT !.messages =
                        @ \o <<ToolMsg(t, 1, "switch_context",
                                       switched.function_response),
                               SummaryMsg(t)>>])
                 /\ result' = [outcome |-> "summary", value |-> "summary"]
       /\ UNCHANGED <<pc, pending, next_call, dispatched, turn_log,
                      turn_start, last_switch, before_detour, objects, inbox>>

HistoryNext == \E shape \in TurnShapes : WholeTurn(shape)

HistorySpec == Init /\ [][HistoryNext]_vars

\* The cleanup at the start of the last turn evicted messages, with a
\* retention size above zero.
Evicted ==
    /\ fn_args.op = "turn"
    /\ fn_result.done
    /\ fn_args.size > 0
    /\ fn_result.deleted_pairs > 0

\* C33 (as claimed): after history eviction with R > 0 the message right
\* after the system message is a user message, for every history the turns
\* produce (with tool calls, with a failed LLM call, with context switches).
C33_EvictionLeavesUserFirst ==
    Evicted =>
        /\ Len(fn_result.messages) >= 2
        /\ fn_result.messages[1].role = "system"
        /\ fn_result.messages[2].role = "user"

\* ------------------------------------------------- the tools of a persona
\* C34: in every reachable state the active tool set is the tool set of the
\* current persona (CORA: execute_command and switch_context; TDD: the five
\* trade functions, switch_tdd_employee and switch_context), and the
\* switch_context tool offered to the model (with every call of the LLM, and
\* kept in the store) lists the other persona only, never the current one.
C34_ToolsOfCurrentPersona ==
    /\ current_context = "CORA" =>
          /\ current_tools.functions = {"execute_command", "switch_context"}
          /\ current_tools.targets = {"TradeAndDevelopmentDivisionRequests"}
    /\ current_context = "TDD" =>
          /\ current_tools.functions =
                {"find_best_trade_route_from_location",
                 "find_best_trade_route_between_locations",
                 "find_best_sell_price_for_commodity_at_location",
                 "find_best_trade_route_for_commodity",
                 "find_best_selling_location_for_commodity",
                 "switch_tdd_employee", "switch_context"}
          /\ current_tools.targets = {"CoraInteractionRequests"}
    /\ AIContextValue(current_context) \notin current_tools.targets
    /\ \A c \in DOMAIN contexts_history :
          AIContextValue(c) \notin contexts_history[c].tools.targets
    /\ turn_log.gpt_call # NoGptCall =>
          /\ turn_log.gpt_call.tools =
                GetContextTools(turn_log.gpt_call.context)
          /\ AIContextValue(turn_log.gpt_call.context)
                \notin turn_log.gpt_call.tools.targets

\* C34 witness: CORA is current again, with the tools restored from its
\* store entry by a switch back from TDD, and a call to the LLM was made
\* with them.
C34_Witness ==
    /\ SwitchWasValid
    /\ last_switch.raised = "none"
    /\ last_switch.pre.current_context = "TDD"
    /\ SwitchTarget = "CORA"
    /\ "CORA" \in DOMAIN last_switch.pre.contexts_history
    /\ current_context = "CORA"
    /\ pc = "idle"
    /\ turn_log.gpt_call.context = "CORA"
    /\ turn_log.gpt_call.tools = current_tools

\* ------------------------------------------------- the voice of a persona
\* C35 (as claimed): in every state between tool dispatches the configured
\* tts voice belongs to the current persona (the CORA voice while CORA is
\* current, the voice of the TDD employee while TDD is current), whatever
\* functions the model has called.
C35_VoiceOfCurrentPersona ==
    /\ current_context = "CORA" => config.tts_voice = CoraVoice
    /\ current_context = "TDD" => config.tts_voice = tdd_voice

\* ------------------------------------- the keys of a game keybinding
\* order and modifiers of _execute_star_citizen_keymapping_command.
order ==
    <<"alt", "ctrl", "shift", "altleft", "ctrlleft", "shiftleft", "altright",
      "ctrlrigth", "shiftright">>
modifiers == Range(order)

\* The sort key: order.index(x) if x in order else len(order).
OrderIndex(x) ==
    IF x \in modifiers
    THEN (CHOOSE i \in 1..Len(order) : order[i] = x) - 1
    ELSE Len(order)

\* sorted(keys, key=...): a stable sort by the sort key, on the names as they
\* stand in the keyboard mapping.
RECURSIVE SortedFrom(_, _)
SortedFrom(keys, index) ==
    IF index > Len(order) THEN <<>>
    ELSE SelectSeq(keys, LAMBDA x : OrderIndex(x) = index)
            \o SortedFrom(keys, index + 1)

\* Keys in one keyboard mapping, and the call of key_module that may raise
\* (counted from the first call of one execution).
MaxKeys == 3
MaxFailingCall == 3

\* The key names of the keyboard mappings: two that are names of order, two
\* that the key mappings of the configuration rename, and a plain key.
ScKeys == {"alt", "shift", "lalt", "lshift", "n"}

\* command.get("keyboard-mapping").split("+")
KeyboardMappings ==
    UNION {{q \in [1..n -> ScKeys] : \A i, j \in 1..n : i # j => q[i] # q[j]} :
                n \in 1..MaxKeys}

\* config["sc-keybind-mappings"]["key-mappings"]: none, or the game's names
\* of the left alt and left shift keys mapped to the names key_module knows.
KeyMappings ==
    {<<>>, [k \in {"lalt", "lshift"} |->
                IF k = "lalt" THEN "altleft" ELSE "shiftleft"]}

\* config["sc-keybind-mappings"]["key-press-mappings"].get(activation mode):
\* the three words the method tests for, a time in milliseconds (a press or
\* a hold), or None for a mode the configuration does not list.
Hold(kind, ms) == [kind |-> kind, ms |-> ms]
HoldValues ==
    {Hold("double_tap", 0), Hold("notSupported", 0), Hold("unknown", 0),
     Hold("none", 0), Hold("ms", 1), Hold("ms", 500)}

\* One call of key_module: it is appended to the calls made so far, and
\* raises when it is the failing call.  After an exception nothing more is
\* called.
KeyModuleCall(K, call, key, failing_call) ==
    IF K.raised # "none" THEN K
    ELSE IF Len(K.calls) + 1 = failing_call
    THEN [K EXCEPT !.calls = Append(@, [call |-> call, key |-> key,
                                        raised |-> TRUE]),
                   !.raised = KeyModuleError]
    ELSE [K EXCEPT !.calls = Append(@, [call |-> call, key |-> key,
                                        raised |-> FALSE])]

\* The body of the loop over keys: the key is renamed by the key mappings; a
\* modifier is pressed down and remembered; any other key is pressed, or
\* held for the time given.  hold > 1 raises TypeError when hold is a word
\* or None.
PressScKey(K, sc_key, hold, key_mappings, failing_call) ==
    LET key == IF sc_key \in DOMAIN key_mappings THEN key_mappings[sc_key]
               ELSE sc_key
        down == KeyModuleCall(K, "keyDown", key, failing_call)
        assumed == IF hold.kind = "unknown"
                   THEN KeyModuleCall(K, "press", key, failing_call)
                   ELSE K
    IN IF K.raised # "none" THEN K
       ELSE IF key \in modifiers
       THEN IF down.raised # "none" THEN down
            ELSE [down EXCEPT !.active_modifiers = Append(@, key)]
       ELSE IF assumed.raised # "none" THEN assumed
       ELSE IF hold.kind # "ms" THEN [assumed EXCEPT !.raised = "TypeError"]
       ELSE IF hold.ms > 1
       THEN KeyModuleCall(
                KeyModuleCall(assumed, "keyDown", key, failing_call),
                "keyUp", key, failing_call)
       ELSE KeyModuleCall(assumed, "press", key, failing_call)

\* for sc_key in keys
RECURSIVE PressScKeys(_, _, _, _, _, _)
PressScKeys(K, keys, i, hold, key_mappings, failing_call) ==
    IF i > Len(keys) THEN K
    ELSE PressScKeys(PressScKey(K, keys[i], hold, key_mappings, failing_call),
                     keys, i + 1, hold, key_mappings, failing_call)

\* active_modifiers.reverse()
Reversed(seq) == [i \in 1..Len(seq) |-> seq[Len(seq) + 1 - i]]

\* for modifier_key in active_modifiers (reversed): key_module.keyUp
ReleaseModifiers(K, failing_call) ==
    LET released == Reversed(K.active_modifiers)
        RECURSIVE Up(_, _)
        Up(R, i) ==
            IF i > Len(released) THEN R
            ELSE Up(KeyModuleCall(R, "keyUp", released[i], failing_call),
                    i + 1)
    IN Up(K, 1)

\* What the method returns: ("Ok", "Ok"), or from the except branch the
\* failure payload and None.
KeymappingReturns(K, function_response, instant_response) ==
    IF K.raised # "none"
    THEN [calls |-> K.calls, caught |-> K.raised,
          function_response |->
              "{\"success\": \"False\", \"error\": \"" \o K.raised \o "\"}",
          instant_response |-> NoneValue]
    ELSE [calls |-> K.calls, caught |-> "none",
          function_response |-> function_response,
          instant_response |-> instant_response]

\* _execute_star_citizen_keymapping_command from the try on, for a command
\* the keybinding service knows and that is not to be avoided.
ExecuteStarCitizenKeymappingCommand(keys, hold, key_mappings, failing_call) ==
    LET K == [calls |-> <<>>, active_modifiers |-> <<>>, raised |-> "none"]
        sorted == IF Len(keys) > 1 THEN SortedFrom(keys, 0) ELSE keys
        tapped == KeyModuleCall(
                      KeyModuleCall(K, "press", keys[1], failing_call),
                      "press", keys[1], failing_call)
        pressed == PressScKeys(K, sorted, 1, hold, key_mappings, failing_call)
    IN IF Len(keys) <= 1 /\ hold.kind = "double_tap"
       THEN KeymappingReturns(tapped, "Ok", "Ok")
       ELSE IF hold.kind = "notSupported"
       THEN KeymappingReturns(K,
                "{\"success\": \"False\", \"error\": \"activation mode not supported\"}",
                NoneValue)
       ELSE KeymappingReturns(ReleaseModifiers(pressed, failing_call),
                              "Ok", "Ok")

\* The keyboard mapping, the hold, the key mappings and the failing call of
\* one execution (0: key_module does not fail).
KeymappingInit ==
    /\ Constructed
    /\ fn_args \in {[op |-> "keymapping", keys |-> keys, hold |-> hold,
                      key_mappings |-> key_mappings,
                      failing_call |-> failing_call] :
                        keys \in KeyboardMappings, hold \in HoldValues,
                        key_mappings \in KeyMappings,
                        failing_call \in 0..MaxFailingCall}
    /\ fn_result = NotReturned

ApplyKeymapping ==
    LET done == ExecuteStarCitizenKeymappingCommand(fn_args.keys,
                    fn_args.hold, fn_args.key_mappings, fn_args.failing_call)
    IN /\ fn_args.op = "keymapping"
       /\ ~fn_result.done
       /\ fn_result' = [done |-> TRUE, calls |-> done.calls,
                        caught |-> done.caught,
                        function_response |-> done.function_response,
                        instant_response |-> done.instant_response]
       /\ UNCHANGED <<turn_vars, fn_args, objects, inbox>>

KeymappingNext == ApplyKeymapping

KeymappingSpec == KeymappingInit /\ [][KeymappingNext]_vars

\* The method has returned for the drawn keyboard mapping.
KeymappingReturned == fn_args.op = "keymapping" /\ fn_result.done

\* The calls of the execution that pressed a modifier down, and those that
\* released one.
ModifierDowns ==
    {i \in 1..Len(fn_result.calls) :
        /\ fn_result.calls[i].call = "keyDown"
        /\ fn_result.calls[i].key \in modifiers
        /\ ~fn_result.calls[i].raised}
ModifierUps ==
    {i \in 1..Len(fn_result.calls) :
        /\ fn_result.calls[i].call = "keyUp"
        /\ fn_result.calls[i].key \in modifiers}

\* C36 (as claimed): when _execute_star_citizen_keymapping_command returns,
\* on every path (success, unsupported or unknown activation mode, double tap
\* with a key combination, an exception of the key module), every keyDown of
\* a modifier is followed by a keyUp of that modifier before the return.
C36_NoModifierLeftHeld ==
    KeymappingReturned =>
        \A i \in ModifierDowns :
            \E j \in ModifierUps :
                /\ j > i
                /\ fn_result.calls[j].key = fn_result.calls[i].key
                /\ ~fn_result.calls[j].raised

\* The calls of the execution on a key that is no modifier.
KeyCalls ==
    {i \in 1..Len(fn_result.calls) : fn_result.calls[i].key \notin modifiers}

\* The keys of the calls at the positions I, in call order.
KeysAt(I) ==
    LET ordered == SelectSeq([i \in 1..Len(fn_result.calls) |-> i],
                             LAMBDA i : i \in I)
    IN [k \in 1..Len(ordered) |-> fn_result.calls[ordered[k]].key]

\* C37 (as claimed): in _execute_star_citizen_keymapping_command the
\* modifiers are pressed in the fixed modifier order before the non-modifier
\* key is pressed, and after that key they are released in the exact reverse
\* of the order in which they were pressed, each once.
C37_ModifiersAroundKey ==
    (KeymappingReturned /\ KeyCalls # {} /\ ModifierDowns # {}) =>
        /\ \A i \in ModifierDowns : \A k \in KeyCalls : i < k
        /\ \A i, j \in ModifierDowns :
              i < j => OrderIndex(fn_result.calls[i].key)
                            < OrderIndex(fn_result.calls[j].key)
        /\ \A j \in ModifierUps : \A k \in KeyCalls : k < j
        /\ KeysAt(ModifierUps) = Reversed(KeysAt(ModifierDowns))

\* ------------------------------------------------- the commands to avoid
\* C38 (as claimed): a command name listed in the avoid-commands
\* configuration never causes a key event when requested through an
\* execute_command tool call, whether it resolves to a game keybinding or to
\* a configured command of the same name; the tool result is a failure
\* payload saying the command is not allowed.
C38_AvoidedCommandNeverPressesKeys ==
    [][(/\ DispatchReturnsStep
        /\ CallReturned.function_name = "execute_command"
        /\ CallReturned.argument \in AvoidCommands
        /\ CallReturned.argument \in ConfiguredNames \cup KeybindingNames)
        => /\ NewEvents = <<>>
           /\ messages' =
                Append(messages,
                       ToolMsg(turn, next_call, "execute_command",
                               "{\"success\": false, \"error\": \"Command not allowed "
                                   \o CallReturned.argument \o "\"}"))]_vars

\* ------------------------------------------ the employees of the TDD manager
\* Voices in config["openai"]["contexts"]["tdd_voices"].
MaxVoices == 3

\* The voice names of the configurations.
VoiceNames == {"onyx", "echo", "fable"}

\* config["openai"]["contexts"]["tdd_voices"].split(","): every list of up to
\* MaxVoices names.
VoiceLists == UNION {[1..n -> VoiceNames] : n \in 1..MaxVoices}

\* TddManager.switch_tdd_employee: the current voice is removed from the set
\* of configured voices (KeyError when it is not in it) and one of the others
\* is drawn (IndexError when there is none); it becomes self.tdd_voice, the
\* configured tdd_voice and the configured tts_voice.
SwitchTddEmployee(tdd_voices_list, current_voice) ==
    LET tdd_voices == Range(tdd_voices_list)
        others == tdd_voices \ {current_voice}
        unchanged == [raised |-> "none", tdd_voice |-> current_voice,
                      config_tdd_voice |-> current_voice,
                      tts_voice |-> CoraVoice]
    IN IF current_voice \notin tdd_voices
       THEN {[unchanged EXCEPT !.raised = "KeyError"]}
       ELSE IF others = {}
       THEN {[unchanged EXCEPT !.raised = "IndexError"]}
       ELSE {[raised |-> "none", tdd_voice |-> choice,
              config_tdd_voice |-> choice, tts_voice |-> choice] :
                choice \in others}

\* TddManager.__init__ takes self.tdd_voice from the configured tdd_voice;
\* the configured voices are a setting of their own.
EmployeeInit ==
    /\ Constructed
    /\ fn_args \in {[op |-> "switch_tdd_employee", tdd_voices |-> list,
                      tdd_voice |-> voice] :
                        list \in VoiceLists, voice \in VoiceNames}
    /\ fn_result = NotReturned

ApplySwitchTddEmployee ==
    /\ fn_args.op = "switch_tdd_employee"
    /\ ~fn_result.done
    /\ \E after \in SwitchTddEmployee(fn_args.tdd_voices, fn_args.tdd_voice) :
          fn_result' = [done |-> TRUE, raised |-> after.raised,
                        tdd_voice |-> after.tdd_voice,
                        config_tdd_voice |-> after.config_tdd_voice,
                        tts_voice |-> after.tts_voice]
    /\ UNCHANGED <<turn_vars, fn_args, objects, inbox>>

EmployeeNext == ApplySwitchTddEmployee

EmployeeSpec == EmployeeInit /\ [][EmployeeNext]_vars

\* C39 (as claimed): after every call of TddManager.switch_tdd_employee, for
\* any configured voice list and any current voice, the call has returned
\* normally, the new TDD voice is one of the configured tdd_voices and
\* differs from the voice before the call, and the configured tdd_voice and
\* tts_voice both equal the new voice.
C39_EmployeeSwitchPicksAnotherVoice ==
    (fn_args.op = "switch_tdd_employee" /\ fn_result.done) =>
        /\ fn_result.raised = "none"
        /\ fn_result.tdd_voice \in Range(fn_args.tdd_voices)
        /\ fn_result.tdd_voice # fn_args.tdd_voice
        /\ fn_result.config_tdd_voice = fn_result.tdd_voice
        /\ fn_result.tts_voice = fn_result.tdd_voice

====
